---- MODULE Spec2Model ----
(***************************************************************************)
(* EVCC status display firmware (ESP32, LVGL): telemetry decode, active    *)
(* loadpoint selection, render step, poll cycle and ring-buffer log.       *)
(*                                                                         *)
(* Units.  Powers are whole watts, energies whole watt-hours, percentages  *)
(* whole percent, currents milliamperes, the solar forecast scale is in    *)
(* thousandths (1000 = 1.0).  The millisecond clock is an unsigned 32-bit  *)
(* counter.  A JSON object is a record whose domain is the set of keys     *)
(* that are present with a value of the expected type; a key that is       *)
(* missing, null or of the wrong type is simply not in the domain, which   *)
(* is how ArduinoJson's `value | default` treats all three.                *)
(***************************************************************************)
EXTENDS Integers, Sequences, FiniteSets, TLC

VARIABLES
    data,                   \* EVCCData data                (part_001:54)
    rotationState,          \* RotationState rotationState  (part_001:62)
    stripe_applied,         \* static bool stripe_applied   (logging.h:89)
    ui,                     \* UIElements ui: what the display shows
    logBuffer,              \* LogEntry logBuffer[LOG_BUFFER_SIZE]
    logHead,
    logCount,
    logTotal,
    logOverwrites,
    logDropped,
    millis,                 \* the millisecond counter read by millis()
    epochOffset,            \* time(nullptr) = epochOffset + millis / 1000
    lastPoll,               \* loop(): static unsigned long lastPoll
    lastLVGL,               \* loop(): static unsigned long lastLVGL
    lastReconnectAttempt,   \* loop(): static unsigned long lastReconnectAttempt
    wifiConnected,          \* WiFi.status() == WL_CONNECTED
    pc,                     \* "boot", "loop", "restart"
    env,                    \* what the heap, the server and the network do to a request
    steps,                  \* operations so far: iterations of loop(), or calls
    events,                 \* changes of the environment so far
    last,                   \* the most recent call: its name, inputs and result
    logMux,                 \* portMUX_TYPE logMux: "free", or the context inside
    logCall,                \* the logMessage call in progress: position and locals
    logsRequest             \* the /logs handler in progress: position and locals

logVars == <<logBuffer, logHead, logCount, logTotal, logOverwrites, logDropped>>

dataVars == <<data, rotationState, stripe_applied, ui>>

loopVars == <<millis, epochOffset, lastPoll, lastLVGL, lastReconnectAttempt>>

webVars == <<logMux, logCall, logsRequest>>

vars == <<data, rotationState, stripe_applied, ui,
          logBuffer, logHead, logCount, logTotal, logOverwrites, logDropped,
          millis, epochOffset, lastPoll, lastLVGL, lastReconnectAttempt,
          wifiConnected, pc, env, steps, events, last,
          logMux, logCall, logsRequest>>

(***************************************************************************)
(* Program constants (config.h)                                            *)
(***************************************************************************)
POLL_INTERVAL == 10000

HTTP_TIMEOUT == 8000

ROTATION_INTERVAL == 10000

POWER_ACTIVE_THRESHOLD == 10

LOG_BUFFER_SIZE == 100

LOG_LEVEL_ERROR == 0

LOG_LEVEL_WARN == 1

LOG_LEVEL_INFO == 2

LOG_LEVEL_DEBUG == 3

LOG_LEVEL_VERBOSE == 4

LOG_MIN_LEVEL == LOG_LEVEL_INFO

\* sizeof(LogEntry::message)
MESSAGE_SIZE == 96

\* uint8_t level
UINT8 == 256

(***************************************************************************)
(* unsigned long and uint32_t are 32 bits wide on the ESP32.  A 32-bit     *)
(* unsigned value v is written as the 32-bit signed integer with the same  *)
(* bits: v itself below 2^31, v - 2^32 from 2^31 on, so that -1 is the     *)
(* last value before the counter wraps to 0.  Addition and subtraction     *)
(* wrap modulo 2^32; comparisons are the unsigned ones.                    *)
(***************************************************************************)
INT32_MAX == 2147483647

INT32_MIN == -INT32_MAX - 1

\* a + b modulo 2^32
U32Add(a, b) ==
    IF a > 0 /\ b > 0 /\ a > INT32_MAX - b THEN ((a - INT32_MAX - 1) + b) + INT32_MIN
    ELSE IF a < 0 /\ b < 0 /\ a < INT32_MIN - b THEN ((a + INT32_MAX + 1) + b) + INT32_MAX + 1
    ELSE a + b

\* a - b modulo 2^32
U32Sub(a, b) ==
    IF a >= 0 /\ b < 0 /\ a > INT32_MAX + b THEN ((a - INT32_MAX - 1) - b) + INT32_MIN
    ELSE IF a < 0 /\ b > 0 /\ a < INT32_MIN + b THEN ((a + INT32_MAX + 1) - b) + INT32_MAX + 1
    ELSE a - b

\* a < b, a >= b and a > b as unsigned comparisons
U32Lt(a, b) == IF (a >= 0) = (b >= 0) THEN a < b ELSE a >= 0

U32Ge(a, b) == ~U32Lt(a, b)

U32Gt(a, b) == U32Lt(b, a)

\* v / 1000 for the unsigned value v: 2^32 = 4294967 * 1000 + 296
U32Seconds(a) == IF a >= 0 THEN a \div 1000 ELSE 4294967 + ((a + 296) \div 1000)

(***************************************************************************)
(* Ring-buffer log (logging.h)                                             *)
(***************************************************************************)
LogEntry(ts, ep, lvl, msg) ==
    [timestamp |-> ts, epoch |-> ep, level |-> lvl, message |-> msg]

\* the zero-initialised global array
EmptyEntry == LogEntry(0, 0, 0, "")

InitLog ==
    [logBuffer     |-> [i \in 0..(LOG_BUFFER_SIZE - 1) |-> EmptyEntry],
     logHead       |-> 0,
     logCount      |-> 0,
     logTotal      |-> 0,
     logOverwrites |-> 0,
     logDropped    |-> 0]

\* no logMessage call is in progress
NoCall == [pc |-> "idle"]

\* no /logs request is in progress
NoRequest == [pc |-> "idle"]

\* memcpy of at most sizeof(message) - 1 characters, then the terminator
CopyMessage(msg) ==
    IF Len(msg) > MESSAGE_SIZE - 1 THEN SubSeq(msg, 1, MESSAGE_SIZE - 1) ELSE msg

\* the level after the clamp of logMessage's first line
ClampLevel(level) ==
    IF level > LOG_LEVEL_VERBOSE THEN LOG_LEVEL_VERBOSE ELSE level

\* a plausible slip: the head is advanced without the modulo
LogMessage_NoWrap(L, level, msg, nowMs, nowEpoch) ==
    LET lvl == ClampLevel(level) IN
    IF lvl < LOG_MIN_LEVEL
    THEN [L EXCEPT !.logDropped = U32Add(@, 1)]
    ELSE [L EXCEPT
            !.logBuffer = [i \in DOMAIN @ |->
                IF i = L.logHead % LOG_BUFFER_SIZE
                THEN LogEntry(nowMs, nowEpoch, lvl, CopyMessage(msg)) ELSE @[i]],
            !.logHead = @ + 1,
            !.logCount = IF @ < LOG_BUFFER_SIZE THEN @ + 1 ELSE @,
            !.logOverwrites = IF L.logCount < LOG_BUFFER_SIZE THEN @ ELSE U32Add(@, 1),
            !.logTotal = U32Add(@, 1)]

\* a plausible slip: the drop counter is bumped before the level test
LogMessage_CountsAll(L, level, msg, nowMs, nowEpoch) ==
    LET lvl == ClampLevel(level) IN
    IF lvl < LOG_MIN_LEVEL
    THEN [L EXCEPT !.logDropped = U32Add(@, 1)]
    ELSE [L EXCEPT
            !.logDropped = U32Add(@, 1),
            !.logBuffer[L.logHead] = LogEntry(nowMs, nowEpoch, lvl, CopyMessage(msg)),
            !.logHead = (@ + 1) % LOG_BUFFER_SIZE,
            !.logCount = IF @ < LOG_BUFFER_SIZE THEN @ + 1 ELSE @,
            !.logOverwrites = IF L.logCount < LOG_BUFFER_SIZE THEN @ ELSE U32Add(@, 1),
            !.logTotal = U32Add(@, 1)]

\* logMessage(level, msg) called when millis() = nowMs and time(nullptr) = nowEpoch,
\* as a function from the log state before the call to the log state after it
LogMessage(L, level, msg, nowMs, nowEpoch) ==
    LET lvl == ClampLevel(level) IN
    IF lvl < LOG_MIN_LEVEL
    THEN [L EXCEPT !.logDropped = U32Add(@, 1)]
    ELSE [L EXCEPT
            !.logBuffer[L.logHead] = LogEntry(nowMs, nowEpoch, lvl, CopyMessage(msg)),
            !.logHead = (@ + 1) % LOG_BUFFER_SIZE,
            !.logCount = IF @ < LOG_BUFFER_SIZE THEN @ + 1 ELSE @,
            !.logOverwrites = IF L.logCount < LOG_BUFFER_SIZE THEN @ ELSE U32Add(@, 1),
            !.logTotal = U32Add(@, 1)]

\* the overload without a level: logMessage(msg) = logMessage(LOG_LEVEL_INFO, msg)
LogInfo(L, msg, nowMs, nowEpoch) ==
    LogMessage(L, LOG_LEVEL_INFO, msg, nowMs, nowEpoch)

LogState ==
    [logBuffer     |-> logBuffer,
     logHead       |-> logHead,
     logCount      |-> logCount,
     logTotal      |-> logTotal,
     logOverwrites |-> logOverwrites,
     logDropped    |-> logDropped]

SetLog(L) ==
    /\ logBuffer' = L.logBuffer
    /\ logHead' = L.logHead
    /\ logCount' = L.logCount
    /\ logTotal' = L.logTotal
    /\ logOverwrites' = L.logOverwrites
    /\ logDropped' = L.logDropped

(***************************************************************************)
(* Telemetry model (config.h) and decode (parseCombinedData)               *)
(***************************************************************************)
\* LoadpointData's member initialisers
DefaultLoadpoint ==
    [soc                |-> -1,
     chargePower        |-> 0,
     title              |-> "",
     vehicleTitle       |-> "",
     charging           |-> FALSE,
     plugged            |-> FALSE,
     vehicleRange       |-> -1,
     effectivePlanTime  |-> "",
     effectivePlanSoc   |-> -1,
     effectiveLimitSoc  |-> -1,
     planProjectedStart |-> "",
     chargeCurrents     |-> [i \in 0..2 |-> 0],
     maxCurrent         |-> 0,
     offeredCurrent     |-> 0,
     phasesActive       |-> 0]

\* EVCCData's member initialisers
DefaultData ==
    [gridPower                |-> 0,
     pvPower                  |-> 0,
     batterySoc               |-> -1,
     homePower                |-> 0,
     batteryPower             |-> 0,
     solarForecastScale       |-> 1000,
     solarForecastTodayEnergy |-> 0,
     lp1                      |-> DefaultLoadpoint,
     lp2                      |-> DefaultLoadpoint,
     lastUpdate               |-> 0,
     consecutiveFailures      |-> 0]

\* RotationState's member initialisers
DefaultRotation == [currentLoadpoint |-> TRUE, lastRotation |-> 0]

\* ArduinoJson: obj[key] | default
Get(obj, key, default) == IF key \in DOMAIN obj THEN obj[key] ELSE default

\* a JSON null in the loadpoints array
JNull == [isNull |-> TRUE]

IsNull(v) == "isNull" \in DOMAIN v

\* "Reset loadpoint data": the seven assignments made per loadpoint
ResetLoadpoint(lp) ==
    [lp EXCEPT !.soc = -1,
               !.chargePower = 0,
               !.vehicleRange = -1,
               !.effectivePlanTime = "",
               !.effectivePlanSoc = -1,
               !.effectiveLimitSoc = -1,
               !.planProjectedStart = ""]

\* the body of `if (loadpoints.size() > n && !loadpoints[n].isNull())`
DecodeLoadpoint(lp, obj, defaultTitle) ==
    LET currents == Get(obj, "chargeCurrents", <<>>) IN
    [lp EXCEPT !.soc = Get(obj, "soc", -1),
               !.chargePower = Get(obj, "chargePower", 0),
               !.title = Get(obj, "title", defaultTitle),
               !.vehicleTitle = Get(obj, "vehicletitle", ""),
               !.charging = Get(obj, "charging", FALSE),
               !.plugged = Get(obj, "plugged", FALSE),
               !.vehicleRange = Get(obj, "vehicleRange", -1),
               !.effectivePlanTime = Get(obj, "effectivePlanTime", ""),
               !.effectivePlanSoc = Get(obj, "effectivePlanSoc", -1),
               !.effectiveLimitSoc = Get(obj, "effectiveLimitSoc", -1),
               !.planProjectedStart = Get(obj, "planProjectedStart", ""),
               !.maxCurrent = Get(obj, "maxCurrent", 0),
               !.offeredCurrent = Get(obj, "offeredCurrent", 0),
               !.phasesActive = Get(obj, "phasesActive", 0),
               !.chargeCurrents = [i \in 0..2 |->
                   IF i < Len(currents) THEN currents[i + 1] ELSE @[i]]]

\* one loadpoint slot: reset, then repopulated when the array has a non-null element
ParseLoadpoint(lp, loadpoints, n, defaultTitle) ==
    IF Len(loadpoints) > n /\ ~IsNull(loadpoints[n + 1])
    THEN DecodeLoadpoint(ResetLoadpoint(lp), loadpoints[n + 1], defaultTitle)
    ELSE ResetLoadpoint(lp)

\* the assignments of parseCombinedData after a successful deserializeJson
DecodeDocument(d, doc) ==
    LET solar == Get(doc, "solar", JNull)
        loadpoints == Get(doc, "loadpoints", <<>>)
    IN  [d EXCEPT
            !.gridPower = Get(doc, "gridPower", 0),
            !.pvPower = Get(doc, "pvPower", 0),
            !.batterySoc = Get(doc, "batterySoc", -1),
            !.homePower = Get(doc, "homePower", 0),
            !.batteryPower = Get(doc, "batteryPower", 0),
            !.solarForecastScale =
                IF ~IsNull(solar) THEN Get(solar, "scale", 1000) ELSE 1000,
            !.solarForecastTodayEnergy =
                IF ~IsNull(solar) THEN Get(solar, "todayEnergy", 0) ELSE 0,
            !.lp1 = ParseLoadpoint(@, loadpoints, 0, "LP1"),
            !.lp2 = ParseLoadpoint(@, loadpoints, 1, "LP2")]

\* a plausible slip: the top-level fields are assigned before the error test
DecodeFailure_Partial(d) == [d EXCEPT !.gridPower = 0, !.pvPower = 0]

\* what a failed deserializeJson leaves of the snapshot: the early return
DecodeFailure(d) == d

(***************************************************************************)
(* Formatter (display_updates.cpp)                                         *)
(***************************************************************************)
Abs(x) == IF x < 0 THEN -x ELSE x

Max(a, b) == IF a >= b THEN a ELSE b

Min(a, b) == IF a <= b THEN a ELSE b

\* C's conversion of a quotient to int: truncation towards zero
TruncDiv(a, b) == IF a >= 0 THEN a \div b ELSE -((-a) \div b)

Sign(x) == IF x < 0 THEN "-" ELSE ""

\* a plausible slip: the tier boundaries tested with <=
FormatTiers_Inclusive(x, unit, small, big) ==
    IF Abs(x) <= 1000 * unit
    THEN ToString(TruncDiv(x, unit)) \o small
    ELSE IF Abs(x) <= 10000 * unit
    THEN LET tenths == (Abs(x) + 50 * unit) \div (100 * unit)
         IN  Sign(x) \o ToString(tenths \div 10) \o "." \o ToString(tenths % 10) \o big
    ELSE Sign(x) \o ToString((Abs(x) + 500 * unit) \div (1000 * unit)) \o big

\* The three tiers shared by formatPower and formatEnergy, for a value x given in
\* 1/unit of the base unit: String((int)v) below 1000, String(v / 1000.0, 1) below
\* 10000 and String(v / 1000.0, 0) from there on.  String(double, n) rounds the
\* magnitude half up at the n-th decimal.
FormatTiers(x, unit, small, big) ==
    IF Abs(x) < 1000 * unit
    THEN ToString(TruncDiv(x, unit)) \o small
    ELSE IF Abs(x) < 10000 * unit
    THEN LET tenths == (Abs(x) + 50 * unit) \div (100 * unit)
         IN  Sign(x) \o ToString(tenths \div 10) \o "." \o ToString(tenths % 10) \o big
    ELSE Sign(x) \o ToString((Abs(x) + 500 * unit) \div (1000 * unit)) \o big

FormatPower(watts) == FormatTiers(watts, 1, "W", "kW")

\* the argument is the product todayEnergy * scale, in thousandths of a Wh
FormatEnergy(milliWh) == FormatTiers(milliWh, 1000, "Wh", "kWh")

FormatPercentage(value) == IF value >= 0 THEN ToString(value) \o "%" ELSE "---"

FormatDistance(value) == IF value >= 0 THEN ToString(value) \o "km" ELSE "-- km"

(***************************************************************************)
(* The display: the properties of the LVGL objects that createUI and        *)
(* updateUI set                                                            *)
(***************************************************************************)
COLOR_TEXT_PRIMARY == 0

COLOR_TEXT_SECONDARY == 9671838

COLOR_TEXT_VALUE == 3355443

SCREEN_WIDTH == 480

PADDING == 4

\* int barWidth = 360 in createUI: the width of the IN and OUT containers
COMPOSITE_BAR_WIDTH == 360

\* int phaseBarWidth = 30
PHASE_BAR_WIDTH == 30

Label(text, color) == [text |-> text, color |-> color]

\* createEnergyRow: description in the primary style, both values in the value style
EnergyRow(value1, value2) ==
    [desc   |-> COLOR_TEXT_PRIMARY,
     value1 |-> Label(value1, COLOR_TEXT_VALUE),
     value2 |-> Label(value2, COLOR_TEXT_VALUE)]

\* createBarSegment: hidden, at 0 with width 0, with an empty hidden label
NewSegment ==
    [hidden |-> TRUE, x |-> 0, width |-> 0, label_hidden |-> TRUE, label_text |-> ""]

\* createCompositeBar followed by n createBarSegment
NewCompositeBar(n) ==
    [hidden |-> TRUE, segments |-> [i \in 0..(n - 1) |-> NewSegment]]

\* createPhaseBar(..., startHidden = true) for the three layers of one phase
NewPhase ==
    [bg_hidden      |-> TRUE,
     offered_hidden |-> TRUE,
     offered_width  |-> PHASE_BAR_WIDTH,
     bar_hidden     |-> TRUE,
     bar_width      |-> 0]

\* createCarSection(parent, "Gartenhaus", "NotAModelY")
NewCarSection ==
    [title_label      |-> "Gartenhaus",
     car_label        |-> "NotAModelY",
     power_label      |-> "0W",
     phases           |-> [i \in 0..2 |-> NewPhase],
     soc_bar          |-> [value |-> 0, stripe |-> FALSE],
     plan_soc_marker  |-> [hidden |-> TRUE, x |-> 0],
     limit_soc_marker |-> [hidden |-> TRUE, x |-> 0],
     soc_value        |-> "0%",
     plan_soc_value   |-> "",
     range_value      |-> "-- km",
     ladelimit_value  |-> "---"]

\* the display as createUI leaves it
CreateUI ==
    [created           |-> TRUE,
     in_bar            |-> NewCompositeBar(3),
     out_bar           |-> NewCompositeBar(4),
     generation        |-> EnergyRow("", "0W"),
     battery_discharge |-> EnergyRow("", "0W"),
     grid_feed         |-> EnergyRow("", "0W"),
     consumption       |-> EnergyRow("", "0W"),
     loadpoint         |-> EnergyRow("", "0W"),
     battery_charge    |-> EnergyRow("", "0W"),
     grid_feedin       |-> EnergyRow("", "5W"),
     car               |-> NewCarSection]

\* before createUI the dashboard objects do not exist (the WiFi status screen shows)
NoUI == [CreateUI EXCEPT !.created = FALSE]

(***************************************************************************)
(* The program's memory as one value M, so that a function of the firmware *)
(* is an operator from the memory before the call to the memory after it,  *)
(* with its return value in M.ret.                                         *)
(***************************************************************************)
Memory ==
    [data           |-> data,
     rotationState  |-> rotationState,
     stripe_applied |-> stripe_applied,
     ui             |-> ui,
     log            |-> LogState,
     millis         |-> millis,
     epochOffset    |-> epochOffset,
     ret            |-> 0]

\* time(nullptr): seconds since boot until the clock is set, the epoch afterwards
Time(M) == M.epochOffset + U32Seconds(M.millis)

Log(M, level, msg) ==
    [M EXCEPT !.log = LogMessage(@, level, msg, M.millis, Time(M))]

\* the time a blocking call takes: delay(ms), or an HTTP request
Elapse(M, ms) == [M EXCEPT !.millis = U32Add(@, ms)]

(***************************************************************************)
(* Active-loadpoint selector (getActiveLoadpoint); M.ret is 1 for &data.lp1 *)
(* and 2 for &data.lp2                                                     *)
(***************************************************************************)
Selected(R) == IF R.currentLoadpoint THEN 1 ELSE 2

\* a plausible slip: the rotation branch is taken before the charging tests
GetActiveLoadpoint_RotateFirst(M) ==
    LET now == M.millis
        R == [currentLoadpoint |-> ~M.rotationState.currentLoadpoint,
              lastRotation     |-> now]
    IN  IF U32Ge(U32Sub(now, M.rotationState.lastRotation), ROTATION_INTERVAL)
        THEN [Log([M EXCEPT !.rotationState = R], LOG_LEVEL_INFO,
                  "Rotating to loadpoint " \o ToString(Selected(R)))
                EXCEPT !.ret = Selected(R)]
        ELSE IF M.data.lp1.charging /\ ~M.data.lp2.charging THEN [M EXCEPT !.ret = 1]
        ELSE IF M.data.lp2.charging /\ ~M.data.lp1.charging THEN [M EXCEPT !.ret = 2]
        ELSE [M EXCEPT !.ret = Selected(M.rotationState)]

\* a plausible slip: the timestamp of the rotation is not stored
GetActiveLoadpoint_NoStamp(M) ==
    LET now == M.millis
        R == [M.rotationState EXCEPT !.currentLoadpoint = ~@]
    IN  IF M.data.lp1.charging /\ ~M.data.lp2.charging THEN [M EXCEPT !.ret = 1]
        ELSE IF M.data.lp2.charging /\ ~M.data.lp1.charging THEN [M EXCEPT !.ret = 2]
        ELSE IF U32Ge(U32Sub(now, M.rotationState.lastRotation), ROTATION_INTERVAL)
        THEN [Log([M EXCEPT !.rotationState = R], LOG_LEVEL_INFO,
                  "Rotating to loadpoint " \o ToString(Selected(R)))
                EXCEPT !.ret = Selected(R)]
        ELSE [M EXCEPT !.ret = Selected(M.rotationState)]

\* a plausible slip: the uptime is tested, not the time since the last rotation
GetActiveLoadpoint_NoElapsed(M) ==
    LET now == M.millis
        R == [currentLoadpoint |-> ~M.rotationState.currentLoadpoint,
              lastRotation     |-> now]
    IN  IF M.data.lp1.charging /\ ~M.data.lp2.charging THEN [M EXCEPT !.ret = 1]
        ELSE IF M.data.lp2.charging /\ ~M.data.lp1.charging THEN [M EXCEPT !.ret = 2]
        ELSE IF U32Ge(now, ROTATION_INTERVAL)
        THEN [Log([M EXCEPT !.rotationState = R], LOG_LEVEL_INFO,
                  "Rotating to loadpoint " \o ToString(Selected(R)))
                EXCEPT !.ret = Selected(R)]
        ELSE [M EXCEPT !.ret = Selected(M.rotationState)]

\* getActiveLoadpoint; M.ret is 1 for &data.lp1 and 2 for &data.lp2
GetActiveLoadpoint(M) ==
    LET lp1Charging == M.data.lp1.charging
        lp2Charging == M.data.lp2.charging
        now == M.millis
        R == [currentLoadpoint |-> ~M.rotationState.currentLoadpoint,
              lastRotation     |-> now]
    IN  IF lp1Charging /\ ~lp2Charging THEN [M EXCEPT !.ret = 1]
        ELSE IF lp2Charging /\ ~lp1Charging THEN [M EXCEPT !.ret = 2]
        ELSE IF U32Ge(U32Sub(now, M.rotationState.lastRotation), ROTATION_INTERVAL)
        THEN [Log([M EXCEPT !.rotationState = R], LOG_LEVEL_INFO,
                  "Rotating to loadpoint " \o ToString(Selected(R)))
                EXCEPT !.ret = Selected(R)]
        ELSE [M EXCEPT !.ret = Selected(M.rotationState)]

\* applyStripePattern(ui.car.soc_bar, charging)
ApplyStripePattern(M, charging) ==
    IF charging /\ ~M.stripe_applied
    THEN Log([M EXCEPT !.ui.car.soc_bar.stripe = TRUE, !.stripe_applied = TRUE],
             LOG_LEVEL_INFO, "Applied stripe pattern (charging)")
    ELSE IF ~charging /\ M.stripe_applied
    THEN Log([M EXCEPT !.ui.car.soc_bar.stripe = FALSE, !.stripe_applied = FALSE],
             LOG_LEVEL_INFO, "Removed stripe pattern (not charging)")
    ELSE M

(***************************************************************************)
(* Composite-bar layout (updateCompositeBar in ui_helpers.cpp)             *)
(***************************************************************************)
\* lv_txt_get_size(..).x for the 12 px font of the segment labels.  The glyph
\* metrics belong to the graphics library; 7 px a character stands for them.
TextWidth(txt) == 7 * Len(txt)

inNames == [i \in 0..3 |-> <<"pv", "bat", "grid", "">>[i + 1]]

outNames == [i \in 0..3 |-> <<"home", "chg", "bat", "grid">>[i + 1]]

\* float totalPower: the sum of the positive values[0 .. n-1]
RECURSIVE TotalPower(_, _)
TotalPower(values, n) ==
    IF n = 0 THEN 0
    ELSE TotalPower(values, n - 1) + (IF values[n - 1] > 0 THEN values[n - 1] ELSE 0)

\* a slip: the share is rounded to the nearest pixel
SegmentWidth_Rounded(values, i, totalPower, barWidth) ==
    Max(1, (2 * values[i] * barWidth + totalPower) \div (2 * totalPower))

\* int segmentWidth = (int)((values[i] / totalPower) * barWidth), at least 1
SegmentWidth(values, i, totalPower, barWidth) ==
    Max(1, TruncDiv(values[i] * barWidth, totalPower))

\* int currentX when the loop reaches segment i
RECURSIVE CurrentX(_, _, _, _)
CurrentX(values, i, totalPower, barWidth) ==
    IF i = 0 THEN 0
    ELSE CurrentX(values, i - 1, totalPower, barWidth)
         + (IF values[i - 1] > 0
            THEN SegmentWidth(values, i - 1, totalPower, barWidth) ELSE 0)

\* a slip: a segment without power is hidden, its label is left as it was
UpdateCompositeBar_LabelLeft(bar, values, segmentCount, barWidth, names) ==
    LET totalPower == TotalPower(values, segmentCount)
        Hide(seg) == [seg EXCEPT !.hidden = TRUE, !.label_hidden = TRUE]
        Show(seg, i) ==
            LET segmentWidth == SegmentWidth(values, i, totalPower, barWidth)
                requiredWidth == TextWidth(names[i]) + 4
                fits == segmentWidth >= requiredWidth /\ names[i] # ""
            IN  [hidden       |-> FALSE,
                 x            |-> CurrentX(values, i, totalPower, barWidth),
                 width        |-> segmentWidth,
                 label_hidden |-> ~fits,
                 label_text   |-> IF fits THEN names[i] ELSE seg.label_text]
    IN  IF totalPower < 1
        THEN [hidden   |-> TRUE,
              segments |-> [i \in 0..(segmentCount - 1) |-> Hide(bar.segments[i])]]
        ELSE [hidden   |-> FALSE,
              segments |-> [i \in 0..(segmentCount - 1) |->
                  IF values[i] > 0 THEN Show(bar.segments[i], i)
                  ELSE [bar.segments[i] EXCEPT !.hidden = TRUE]]]

\* updateCompositeBar for the IN and OUT bars (abbreviation mode)
UpdateCompositeBar(bar, values, segmentCount, barWidth, names) ==
    LET totalPower == TotalPower(values, segmentCount)
        Hide(seg) == [seg EXCEPT !.hidden = TRUE, !.label_hidden = TRUE]
        Show(seg, i) ==
            LET segmentWidth == SegmentWidth(values, i, totalPower, barWidth)
                requiredWidth == TextWidth(names[i]) + 4
                fits == segmentWidth >= requiredWidth /\ names[i] # ""
            IN  [hidden       |-> FALSE,
                 x            |-> CurrentX(values, i, totalPower, barWidth),
                 width        |-> segmentWidth,
                 label_hidden |-> ~fits,
                 label_text   |-> IF fits THEN names[i] ELSE seg.label_text]
    IN  IF totalPower < 1
        THEN [hidden   |-> TRUE,
              segments |-> [i \in 0..(segmentCount - 1) |-> Hide(bar.segments[i])]]
        ELSE [hidden   |-> FALSE,
              segments |-> [i \in 0..(segmentCount - 1) |->
                  IF values[i] > 0 THEN Show(bar.segments[i], i)
                  ELSE Hide(bar.segments[i])]]

(***************************************************************************)
(* Render/update step (updateUI in display_updates.cpp)                    *)
(***************************************************************************)
\* the colour of a row: dimmed below the activity threshold
FlowColor(power) ==
    IF Abs(power) < POWER_ACTIVE_THRESHOLD THEN COLOR_TEXT_SECONDARY ELSE COLOR_TEXT_VALUE

\* description, value1 and value2 in one colour
Colored3(row, value1, value2, color) ==
    [desc |-> color, value1 |-> Label(value1, color), value2 |-> Label(value2, color)]

\* description and value2 in one colour, value1 left as it is
Colored2(row, value2, color) ==
    [row EXCEPT !.desc = color, !.value2 = Label(value2, color)]

\* a plausible slip: the feed-in row is only written while power is fed in
UpdateRows_FeedInLeft(u, d) ==
    LET pct == FormatPercentage(d.batterySoc)
        zero == FormatPower(0)
        total_lp_power == d.lp1.chargePower + d.lp2.chargePower
        discharging == d.batteryPower > POWER_ACTIVE_THRESHOLD
        charging == ~discharging /\ d.batteryPower < -POWER_ACTIVE_THRESHOLD
        importing == d.gridPower > POWER_ACTIVE_THRESHOLD
        feeding == ~importing /\ d.gridPower < -POWER_ACTIVE_THRESHOLD
    IN  [u EXCEPT
            !.generation = Colored3(@, FormatEnergy(d.solarForecastTodayEnergy
                                                    * d.solarForecastScale),
                                    FormatPower(d.pvPower), FlowColor(d.pvPower)),
            !.consumption = Colored2(@, FormatPower(d.homePower), FlowColor(d.homePower)),
            !.battery_discharge =
                IF discharging
                THEN Colored3(@, pct, FormatPower(d.batteryPower), COLOR_TEXT_VALUE)
                ELSE Colored3(@, pct, zero, COLOR_TEXT_SECONDARY),
            !.battery_charge =
                IF charging
                THEN Colored3(@, pct, FormatPower(-d.batteryPower), COLOR_TEXT_VALUE)
                ELSE Colored3(@, pct, zero, COLOR_TEXT_SECONDARY),
            !.grid_feed =
                IF importing
                THEN Colored2(@, FormatPower(d.gridPower), COLOR_TEXT_VALUE)
                ELSE Colored2(@, zero, COLOR_TEXT_SECONDARY),
            !.grid_feedin =
                IF feeding
                THEN Colored2(@, FormatPower(-d.gridPower), COLOR_TEXT_VALUE)
                ELSE @,
            !.loadpoint = Colored2(@, FormatPower(total_lp_power),
                                   FlowColor(total_lp_power))]

\* the seven power-flow rows
UpdateRows(u, d) ==
    LET pct == FormatPercentage(d.batterySoc)
        zero == FormatPower(0)
        total_lp_power == d.lp1.chargePower + d.lp2.chargePower
        discharging == d.batteryPower > POWER_ACTIVE_THRESHOLD
        charging == ~discharging /\ d.batteryPower < -POWER_ACTIVE_THRESHOLD
        importing == d.gridPower > POWER_ACTIVE_THRESHOLD
        feeding == ~importing /\ d.gridPower < -POWER_ACTIVE_THRESHOLD
    IN  [u EXCEPT
            !.generation = Colored3(@, FormatEnergy(d.solarForecastTodayEnergy
                                                    * d.solarForecastScale),
                                    FormatPower(d.pvPower), FlowColor(d.pvPower)),
            !.consumption = Colored2(@, FormatPower(d.homePower), FlowColor(d.homePower)),
            !.battery_discharge =
                IF discharging
                THEN Colored3(@, pct, FormatPower(d.batteryPower), COLOR_TEXT_VALUE)
                ELSE Colored3(@, pct, zero, COLOR_TEXT_SECONDARY),
            !.battery_charge =
                IF charging
                THEN Colored3(@, pct, FormatPower(-d.batteryPower), COLOR_TEXT_VALUE)
                ELSE Colored3(@, pct, zero, COLOR_TEXT_SECONDARY),
            !.grid_feed =
                IF importing
                THEN Colored2(@, FormatPower(d.gridPower), COLOR_TEXT_VALUE)
                ELSE Colored2(@, zero, COLOR_TEXT_SECONDARY),
            !.grid_feedin =
                IF feeding
                THEN Colored2(@, FormatPower(-d.gridPower), COLOR_TEXT_VALUE)
                ELSE Colored2(@, zero, COLOR_TEXT_SECONDARY),
            !.loadpoint = Colored2(@, FormatPower(total_lp_power),
                                   FlowColor(total_lp_power))]

\* float inValues[3]
InValues(d) ==
    [i \in 0..2 |->
        <<Max(d.pvPower, 0), Max(d.batteryPower, 0), Max(d.gridPower, 0)>>[i + 1]]

\* a plausible slip: the power fed into the grid is left out of the OUT bar
OutValues_NoFeedIn(d) ==
    [i \in 0..3 |->
        <<Max(d.homePower, 0), Max(d.lp1.chargePower + d.lp2.chargePower, 0),
          Max(-d.batteryPower, 0), 0>>[i + 1]]

\* float outValues[4]
OutValues(d) ==
    [i \in 0..3 |->
        <<Max(d.homePower, 0), Max(d.lp1.chargePower + d.lp2.chargePower, 0),
          Max(-d.batteryPower, 0), Max(-d.gridPower, 0)>>[i + 1]]

\* the two composite bars; barMaxWidth is the width of the IN container
UpdateBars(u, d) ==
    [u EXCEPT
        !.in_bar = UpdateCompositeBar(@, InValues(d), 3, COMPOSITE_BAR_WIDTH, inNames),
        !.out_bar = UpdateCompositeBar(@, OutValues(d), 4, COMPOSITE_BAR_WIDTH, outNames)]

\* a plausible slip: the share of the bar rounded to the nearest pixel
PhaseWidth_Rounded(current, maxCurrent) ==
    LET w == IF current > maxCurrent THEN PHASE_BAR_WIDTH
             ELSE (2 * current * PHASE_BAR_WIDTH + maxCurrent) \div (2 * maxCurrent)
    IN  IF w < 1 /\ current >= 100 THEN 1 ELSE w

\* (int)(ratio * phaseBarWidth) with the ratio capped at 1.0, raised to 1 px for a
\* current above 0.1 A.  The current is a float and 0.1 a double: the float nearest
\* to 0.1 is above the double, so that 100 mA itself passes the test.
PhaseWidth(current, maxCurrent) ==
    LET w == IF current > maxCurrent THEN PHASE_BAR_WIDTH
             ELSE TruncDiv(current * PHASE_BAR_WIDTH, maxCurrent)
    IN  IF w < 1 /\ current >= 100 THEN 1 ELSE w

\* the three layered bars of phase i
UpdatePhase(ph, lp, i) ==
    IF lp.charging /\ i < lp.phasesActive /\ lp.maxCurrent > 0
    THEN [bg_hidden      |-> FALSE,
          offered_hidden |-> FALSE,
          offered_width  |-> PhaseWidth(lp.offeredCurrent, lp.maxCurrent),
          bar_hidden     |-> ~(lp.chargeCurrents[i] > 0),
          bar_width      |-> IF lp.chargeCurrents[i] > 0
                             THEN PhaseWidth(lp.chargeCurrents[i], lp.maxCurrent)
                             ELSE ph.bar_width]
    ELSE [ph EXCEPT !.bg_hidden = TRUE, !.offered_hidden = TRUE, !.bar_hidden = TRUE]

\* int barWidth = SCREEN_WIDTH - (4 * PADDING) - 16: the width of the SoC bar
SocBarWidth == SCREEN_WIDTH - (4 * PADDING) - 16

\* a plausible slip: the plan marker tested like the limit marker, shown from 0 on
PlanMarker_ShownAtZero(mk, lp) ==
    IF lp.effectivePlanSoc >= 0
    THEN [hidden |-> FALSE,
          x      |-> TruncDiv(lp.effectivePlanSoc * SocBarWidth - 100, 100)]
    ELSE [mk EXCEPT !.hidden = TRUE]

\* the plan marker: shown for a plan SoC above 0, at (pct / 100.0) * barWidth - 1
PlanMarker(mk, lp) ==
    IF lp.effectivePlanSoc > 0
    THEN [hidden |-> FALSE,
          x      |-> TruncDiv(lp.effectivePlanSoc * SocBarWidth - 100, 100)]
    ELSE [mk EXCEPT !.hidden = TRUE]

\* the limit marker: shown for a limit SoC of 0 or more, clamped into the bar
LimitMarker(mk, lp) ==
    IF lp.effectiveLimitSoc >= 0
    THEN [hidden |-> FALSE,
          x      |-> Min(SocBarWidth - 6,
                         Max(0, TruncDiv(lp.effectiveLimitSoc * SocBarWidth - 300, 100)))]
    ELSE [mk EXCEPT !.hidden = TRUE]

\* the vehicle panel for the active loadpoint, the stripe apart
UpdateCar(c, lp) ==
    [c EXCEPT
        !.power_label = IF lp.charging THEN FormatPower(lp.chargePower)
                        ELSE IF lp.plugged THEN "Verbunden" ELSE "Nicht verbunden",
        !.soc_bar.value = IF lp.soc >= 0 THEN Min(100, lp.soc) ELSE @,
        !.soc_value = IF lp.soc >= 0 THEN FormatPercentage(lp.soc) ELSE "---",
        !.phases = [i \in 0..2 |-> UpdatePhase(@[i], lp, i)],
        !.plan_soc_marker = PlanMarker(@, lp),
        !.limit_soc_marker = LimitMarker(@, lp),
        !.range_value = IF lp.vehicleRange >= 0 THEN FormatDistance(lp.vehicleRange)
                        ELSE FormatDistance(-1),
        !.car_label = IF lp.vehicleTitle # "" THEN lp.vehicleTitle ELSE @,
        !.title_label = IF lp.title # "" THEN lp.title ELSE @,
        !.plan_soc_value = IF lp.effectivePlanTime # "" /\ lp.effectivePlanSoc >= 0
                           THEN FormatPercentage(lp.effectivePlanSoc) ELSE "",
        !.ladelimit_value = IF lp.effectiveLimitSoc >= 0
                            THEN FormatPercentage(lp.effectiveLimitSoc) ELSE "---"]

ActiveLP(d, which) == IF which = 1 THEN d.lp1 ELSE d.lp2

\* updateUI up to the call of getActiveLoadpoint: the rows and the two bars
RenderFlows(M) == [M EXCEPT !.ui = UpdateBars(UpdateRows(@, M.data), M.data)]

\* updateUI from the call of getActiveLoadpoint on; M.ret is the loadpoint it returned
RenderCar(M) ==
    LET activeLP == ActiveLP(M.data, M.ret)
        shown == [M EXCEPT !.ui.car = UpdateCar(@, activeLP)]
    IN  IF activeLP.soc >= 0 THEN ApplyStripePattern(shown, activeLP.charging) ELSE shown

\* a plausible slip: the rows and bars are refreshed, the vehicle panel is not
UpdateUI_NoCar(M) == RenderFlows(M)

UpdateUI(M) == RenderCar(GetActiveLoadpoint(RenderFlows(M)))

(***************************************************************************)
(* Network and poll cycle (httpGet, parseCombinedData, pollEVCCData)        *)
(*                                                                         *)
(* A request is answered by the environment e: the free heap read before    *)
(* and after the poll, the HTTP code, the time the request blocks, and the  *)
(* body as [wellFormed, doc]: whether deserializeJson accepts it, and the   *)
(* document it yields.                                                     *)
(***************************************************************************)
HTTP_CODE_OK == 200

\* pollEVCCData: if (ESP.getFreeHeap() < 16000)
MIN_HEAP_FOR_REQUEST == 16000

\* pollEVCCData: if (ESP.getFreeHeap() < 12000)
LOW_HEAP_AFTER_POLL == 12000

\* loop: if (data.consecutiveFailures > 50)
MAX_CONSECUTIVE_FAILURES == 50

\* loop: if (now - lastReconnectAttempt > 30000)
RECONNECT_INTERVAL == 30000

\* httpGet once http.GET() has returned
HttpAnswered(M, e) ==
    IF e.http_code = HTTP_CODE_OK
    THEN [Log(M, LOG_LEVEL_INFO, "HTTP success: n chars") EXCEPT !.ret = TRUE]
    ELSE [Log(M, LOG_LEVEL_ERROR, "HTTP error: " \o ToString(e.http_code))
            EXCEPT !.ret = FALSE]

\* httpGet; M.ret is the success flag, the body is e.body
HttpGet(M, e) ==
    HttpAnswered(Elapse(Log(M, LOG_LEVEL_INFO, "Requesting [LIVE]: url"), e.latency), e)

\* parseCombinedData; M.ret is its return value
ParseCombinedData(M, json) ==
    IF ~json.wellFormed
    THEN [Log(M, LOG_LEVEL_ERROR, "Combined parse error: error")
            EXCEPT !.data = DecodeFailure(@), !.ret = FALSE]
    ELSE [M EXCEPT !.data = DecodeDocument(@, json.doc), !.ret = TRUE]

\* a plausible slip: a successful poll leaves the failure counter alone
PollDecoded_NoReset(M, e) ==
    LET shown == UpdateUI([M EXCEPT !.data.lastUpdate = M.millis])
    IN  IF e.heap_after < LOW_HEAP_AFTER_POLL
        THEN [Log(shown, LOG_LEVEL_WARN, "Low memory after poll: n bytes")
                EXCEPT !.ret = TRUE]
        ELSE [shown EXCEPT !.ret = TRUE]

\* pollEVCCData after a successful parse
PollDecoded(M, e) ==
    LET shown == UpdateUI([M EXCEPT !.data.lastUpdate = M.millis,
                                    !.data.consecutiveFailures = 0])
    IN  IF e.heap_after < LOW_HEAP_AFTER_POLL
        THEN [Log(shown, LOG_LEVEL_WARN, "Low memory after poll: n bytes")
                EXCEPT !.ret = TRUE]
        ELSE [shown EXCEPT !.ret = TRUE]

\* pollEVCCData after parseCombinedData has returned M.ret
PollParsed(M, e) == IF M.ret THEN PollDecoded(M, e) ELSE [M EXCEPT !.ret = FALSE]

\* pollEVCCData after httpGet has returned M.ret
PollAnswered(M, e) ==
    IF M.ret THEN PollParsed(ParseCombinedData(M, e.body), e)
    ELSE [Log(M, LOG_LEVEL_ERROR, "HTTP request failed") EXCEPT !.ret = FALSE]

\* a request that skips the memory check
PollChecked_Unchecked(M, e) == PollAnswered(HttpGet(M, e), e)

\* pollEVCCData from the memory check on
PollChecked(M, e) ==
    IF e.free_heap < MIN_HEAP_FOR_REQUEST
    THEN [Log(M, LOG_LEVEL_WARN, "Insufficient memory for HTTP request")
            EXCEPT !.ret = FALSE]
    ELSE PollAnswered(HttpGet(M, e), e)

\* pollEVCCData; M.ret is its return value
PollEVCCData(M, e) ==
    PollChecked(Log(M, LOG_LEVEL_INFO, "Starting poll - Free heap: n bytes"), e)

(***************************************************************************)
(* setup() and loop()                                                      *)
(***************************************************************************)
\* connectWiFi: delay(500) per attempt, const int maxAttempts = 40
WIFI_ATTEMPT_DELAY == 500
WIFI_MAX_ATTEMPTS == 40

\* setup: while (now < 8 * 3600 * 2 && attempts < 20) { delay(500); ... }
TIME_SYNC_THRESHOLD == 8 * 3600 * 2
TIME_SYNC_DELAY == 500
TIME_SYNC_MAX_ATTEMPTS == 20

\* loop: if (now - lastLVGL >= 5)
LVGL_INTERVAL == 5

\* connectWiFi after the wait for the radio
WiFiWaited(M, connected) ==
    IF connected
    THEN [Elapse(Log(M, LOG_LEVEL_INFO, "Connected! IP: ip"), 1000) EXCEPT !.ret = TRUE]
    ELSE [Elapse(Log(M, LOG_LEVEL_INFO, "Failed to connect to WiFi"), 2000)
            EXCEPT !.ret = FALSE]

\* connectWiFi; the radio connects after `attempts` waits, or never does
ConnectWiFi(M, attempts, connected) ==
    WiFiWaited(Elapse(Log(M, LOG_LEVEL_INFO, "Connecting to WiFi..."),
                      attempts * WIFI_ATTEMPT_DELAY), connected)

\* the wait for the clock: SNTP sets it to `epoch` after `attempts` waits
SyncTime(M, attempts, epoch) ==
    Log([Elapse(Log(M, LOG_LEVEL_INFO, "Waiting for time synchronization..."),
                attempts * TIME_SYNC_DELAY) EXCEPT !.epochOffset = epoch],
        LOG_LEVEL_INFO, "Time synchronized: ctime")

\* createUI
CreateUIStep(M) ==
    Log([M EXCEPT !.ui = CreateUI], LOG_LEVEL_INFO, "UI created - Free heap: n")

\* setup from createUI on
SetupUI(M) ==
    Log(Log(UpdateUI(Log(CreateUIStep(M), LOG_LEVEL_INFO,
                         "After UI creation - Free heap: n bytes")),
            LOG_LEVEL_INFO, "UI updated with initial data"),
        LOG_LEVEL_INFO, "Setup complete - Free heap: n bytes")

\* setup after the HTTP test has returned M.ret
SetupTested(M, e) ==
    SetupUI(Log(IF M.ret
                THEN ParseCombinedData(
                         Log(M, LOG_LEVEL_INFO, "HTTP test successful before UI!"), e.body)
                ELSE M,
                LOG_LEVEL_INFO, "After HTTP test - Free heap: n bytes"))

\* setup, WiFi connected: web server, clock, HTTP test, createUI, updateUI
SetupConnected(M, b, e) ==
    SetupTested(
        HttpGet(Log(SyncTime(Log(Log(M, LOG_LEVEL_INFO, "After WiFi - Free heap: n bytes"),
                                 LOG_LEVEL_INFO, "Web server started on port 80"),
                             b.syncAttempts, b.epoch),
                    LOG_LEVEL_INFO, "Testing HTTP before UI creation..."), e),
        e)

\* setup, WiFi failed: the placeholders of createUI stay on the display
SetupDemo(M) ==
    CreateUIStep(Elapse(Log(M, LOG_LEVEL_INFO, "WiFi failed - running in demo mode"), 3000))

\* setup after connectWiFi has returned M.ret
SetupWiFiDone(M, b, e) == IF M.ret THEN SetupConnected(M, b, e) ELSE SetupDemo(M)

\* setup; b is how the boot goes: [wifi, wifiAttempts, syncAttempts, epoch]
Setup(M, b, e) ==
    SetupWiFiDone(
        ConnectWiFi(Log(Log(M, LOG_LEVEL_INFO, "EVCC Display ESP32 - Starting..."),
                        LOG_LEVEL_INFO, "Display initialized - Free heap: n bytes"),
                    b.wifiAttempts, b.wifi),
        b, e)

\* a mistaken threshold test: restart on reaching the threshold
TooManyFailures_AtThreshold(n) == n >= MAX_CONSECUTIVE_FAILURES

\* loop: if (data.consecutiveFailures > 50)
TooManyFailures(n) == n > MAX_CONSECUTIVE_FAILURES

\* a plausible slip: the failures are counted and logged but never acted on
PollFailed_NoRestart(M) == [M EXCEPT !.ret = FALSE]

\* loop, after a poll that failed
PollFailed(M) ==
    IF TooManyFailures(M.data.consecutiveFailures)
    THEN [Elapse(Log(M, LOG_LEVEL_ERROR, "Too many failures, restarting..."), 1000)
            EXCEPT !.ret = TRUE]
    ELSE [M EXCEPT !.ret = FALSE]

\* loop, after pollEVCCData has returned M.ret
PollReturned(M) ==
    IF M.ret THEN [M EXCEPT !.ret = FALSE]
    ELSE PollFailed(Log([M EXCEPT !.data.consecutiveFailures = @ + 1], LOG_LEVEL_WARN,
                        "Poll failed (#" \o ToString(M.data.consecutiveFailures + 1) \o ")"))

\* loop, the poll branch taken; M.ret is whether ESP.restart() is reached
PollBranch(M, e) == PollReturned(PollEVCCData(M, e))

\* loop, the reconnection branch taken
ReconnectBranch(M) ==
    Log(M, LOG_LEVEL_WARN, "WiFi disconnected, attempting reconnect...")

(***************************************************************************)
(* The firmware: setup once, then iterations of loop, polls against an     *)
(* environment that answers them                                           *)
(***************************************************************************)
\* iterations of loop() a run covers
MaxIterations == 53

\* the environment (server, network, heap, radio) changes condition at most
\* MaxEvents times, and only before iteration MaxFreeIterations of loop();
\* the condition it is in then persists
MaxEvents == 1

MaxFreeIterations == 2

\* the time an answered request takes, in ms
HttpLatency == 200

\* the epoch SNTP sets the clock to
SyncedEpoch == 1767225600

LpCharging ==
    [soc |-> 55, chargePower |-> 7000, title |-> "Garage", vehicletitle |-> "Car",
     charging |-> TRUE, plugged |-> TRUE, vehicleRange |-> 210,
     effectivePlanTime |-> "2026-01-01T06:00:00Z", effectivePlanSoc |-> 80,
     effectiveLimitSoc |-> 90, maxCurrent |-> 16000, offeredCurrent |-> 16000,
     phasesActive |-> 3, chargeCurrents |-> <<15900, 15800, 16000>>]

LpIdle ==
    [title |-> "Carport", charging |-> FALSE, plugged |-> FALSE, phasesActive |-> 0]

DocFull ==
    [gridPower |-> -200, pvPower |-> 1500, homePower |-> 800, batteryPower |-> 0,
     batterySoc |-> 62, solar |-> [scale |-> 1000, todayEnergy |-> 12000],
     loadpoints |-> <<LpCharging, LpIdle>>]

DocBare == [gridPower |-> 500, homePower |-> 500]

\* an environment in which a request is answered with doc
Healthy(doc) ==
    [free_heap |-> 180000, heap_after |-> 170000, http_code |-> HTTP_CODE_OK,
     latency |-> HttpLatency, body |-> [wellFormed |-> TRUE, doc |-> doc]]

Garbled == [wellFormed |-> FALSE]

Modes ==
    { Healthy(DocFull),
      [Healthy(DocBare) EXCEPT !.heap_after = 11000],
      [Healthy(DocFull) EXCEPT !.body = Garbled],
      [Healthy(DocFull) EXCEPT !.http_code = -11, !.latency = HTTP_TIMEOUT],
      [Healthy(DocFull) EXCEPT !.free_heap = 15000] }

BootCases ==
    { [wifi |-> TRUE, wifiAttempts |-> 2, syncAttempts |-> 1, epoch |-> SyncedEpoch],
      [wifi |-> TRUE, wifiAttempts |-> 2, syncAttempts |-> TIME_SYNC_MAX_ATTEMPTS, epoch |-> 0],
      [wifi |-> FALSE, wifiAttempts |-> WIFI_MAX_ATTEMPTS, syncAttempts |-> 0, epoch |-> 0] }

SetMemory(M) ==
    /\ data' = M.data
    /\ rotationState' = M.rotationState
    /\ stripe_applied' = M.stripe_applied
    /\ ui' = M.ui
    /\ SetLog(M.log)
    /\ millis' = M.millis
    /\ epochOffset' = M.epochOffset

\* the globals and statics as constructed
ConstructedData ==
    /\ data = DefaultData
    /\ rotationState = DefaultRotation
    /\ stripe_applied = FALSE
    /\ ui = NoUI

ConstructedLog ==
    /\ logBuffer = InitLog.logBuffer
    /\ logHead = 0
    /\ logCount = 0
    /\ logTotal = 0
    /\ logOverwrites = 0
    /\ logDropped = 0
    /\ logMux = "free"

ConstructedLoop ==
    /\ millis = 0
    /\ epochOffset = 0
    /\ lastPoll = 0
    /\ lastLVGL = 0
    /\ lastReconnectAttempt = 0
    /\ wifiConnected = FALSE

\* the environment at power-up, nothing done yet
Untouched ==
    /\ env = Healthy(DocFull)
    /\ steps = 0
    /\ events = 0
    /\ last = [op |-> "none"]
    /\ logCall = NoCall
    /\ logsRequest = NoRequest

Init ==
    /\ ConstructedData
    /\ ConstructedLog
    /\ ConstructedLoop
    /\ Untouched
    /\ pc = "boot"

RunSetup ==
    /\ pc = "boot"
    /\ \E b \in BootCases :
          /\ SetMemory(Setup(Memory, b, env))
          /\ wifiConnected' = b.wifi
    /\ pc' = "loop"
    /\ UNCHANGED <<webVars, lastPoll, lastLVGL, lastReconnectAttempt, env, steps, events, last>>

\* a plausible slip: the reconnection interval tested with >=
LoopPolled_ReconnectAtInterval(M, now, pollDue, poll0, lvgl0) ==
    LET reconnectDue ==
            /\ ~M.ret
            /\ ~wifiConnected
            /\ U32Ge(U32Sub(now, lastReconnectAttempt), RECONNECT_INTERVAL)
    IN  /\ SetMemory(IF reconnectDue THEN ReconnectBranch(M) ELSE M)
        /\ lastLVGL' = IF U32Ge(U32Sub(now, lvgl0), LVGL_INTERVAL) THEN now ELSE lvgl0
        /\ lastPoll' = IF pollDue THEN now ELSE poll0
        /\ lastReconnectAttempt' = IF reconnectDue THEN now ELSE lastReconnectAttempt
        /\ pc' = IF M.ret THEN "restart" ELSE "loop"

\* loop from the reconnection logic on; M.ret is whether ESP.restart() was reached
LoopPolled(M, now, pollDue, poll0, lvgl0) ==
    LET reconnectDue ==
            /\ ~M.ret
            /\ ~wifiConnected
            /\ U32Gt(U32Sub(now, lastReconnectAttempt), RECONNECT_INTERVAL)
    IN  /\ SetMemory(IF reconnectDue THEN ReconnectBranch(M) ELSE M)
        /\ lastLVGL' = IF U32Ge(U32Sub(now, lvgl0), LVGL_INTERVAL) THEN now ELSE lvgl0
        /\ lastPoll' = IF pollDue THEN now ELSE poll0
        /\ lastReconnectAttempt' = IF reconnectDue THEN now ELSE lastReconnectAttempt
        /\ pc' = IF M.ret THEN "restart" ELSE "loop"

\* a plausible slip: on overflow lastPoll and lastLVGL restart from now
LoopAt_ResetToNow(M, now) ==
    LET poll0 == IF U32Lt(now, lastPoll) THEN now ELSE lastPoll
        lvgl0 == IF U32Lt(now, lastLVGL) THEN now ELSE lastLVGL
        pollDue == wifiConnected /\ U32Ge(U32Sub(now, poll0), POLL_INTERVAL)
    IN  LoopPolled(IF pollDue THEN PollBranch(M, env) ELSE M, now, pollDue, poll0, lvgl0)

\* loop with millis() returning now
LoopAt(M, now) ==
    LET poll0 == IF U32Lt(now, lastPoll) THEN 0 ELSE lastPoll
        lvgl0 == IF U32Lt(now, lastLVGL) THEN 0 ELSE lastLVGL
        pollDue == wifiConnected /\ U32Ge(U32Sub(now, poll0), POLL_INTERVAL)
    IN  LoopPolled(IF pollDue THEN PollBranch(M, env) ELSE M, now, pollDue, poll0, lvgl0)

\* the time from the end of one iteration to the start of the next one modelled:
\* delay(1) and the steps in between, which found nothing due
Delays == IF steps < MaxFreeIterations THEN {LVGL_INTERVAL, POLL_INTERVAL}
          ELSE {POLL_INTERVAL}

\* one iteration of loop()
Loop ==
    /\ pc = "loop"
    /\ steps < MaxIterations
    /\ \E d \in Delays :
          LoopAt([Memory EXCEPT !.millis = U32Add(@, d), !.ret = FALSE], U32Add(millis, d))
    /\ steps' = steps + 1
    /\ UNCHANGED <<webVars, wifiConnected, env, events, last>>

\* the server, the network or the heap changes condition
EnvChange ==
    /\ pc \in {"boot", "loop"}
    /\ events < MaxEvents
    /\ steps < MaxFreeIterations
    /\ env' \in Modes \ {env}
    /\ events' = events + 1
    /\ UNCHANGED <<webVars, dataVars, logVars, loopVars, wifiConnected, pc, steps, last>>

\* the radio loses or regains the access point
WifiChange ==
    /\ pc = "loop"
    /\ events < MaxEvents
    /\ steps < MaxFreeIterations
    /\ wifiConnected' = ~wifiConnected
    /\ events' = events + 1
    /\ UNCHANGED <<webVars, dataVars, logVars, loopVars, pc, env, steps, last>>

\* ESP.restart(): the firmware starts over
Reboot ==
    /\ pc = "restart"
    /\ data' = DefaultData
    /\ rotationState' = DefaultRotation
    /\ stripe_applied' = FALSE
    /\ ui' = NoUI
    /\ SetLog(InitLog)
    /\ millis' = 0
    /\ epochOffset' = 0
    /\ lastPoll' = 0
    /\ lastLVGL' = 0
    /\ lastReconnectAttempt' = 0
    /\ wifiConnected' = FALSE
    /\ pc' = "boot"
    /\ UNCHANGED <<webVars, env, steps, events, last>>

Next == RunSetup \/ Loop \/ EnvChange \/ WifiChange \/ Reboot

Spec == Init /\ [][Next]_vars

(***************************************************************************)
(* The log alone: calls of logMessage at any level, on a ring buffer that   *)
(* earlier calls have filled to various degrees                            *)
(***************************************************************************)
\* calls of logMessage a run makes
MaxLogCalls == 3

Decade == "0123456789"

\* 100 characters, more than a slot holds
LongMessage ==
    Decade \o Decade \o Decade \o Decade \o Decade \o Decade \o Decade \o Decade
           \o Decade \o Decade

Messages == {"Poll failed (#1)", LongMessage}

\* the levels of config.h, and a value above them
Levels == {LOG_LEVEL_ERROR, LOG_LEVEL_WARN, LOG_LEVEL_INFO, LOG_LEVEL_DEBUG,
           LOG_LEVEL_VERBOSE, UINT8 - 1}

\* calls logMessage("boot") made before the others, one per millisecond
MaxPriorCalls == 199

\* where the other calls may begin: on an empty buffer, on one about to fill, on a
\* full one about to wrap
PriorCalls == {0, LOG_BUFFER_SIZE - 2, MaxPriorCalls}

InitLogCalls ==
    /\ ConstructedData
    /\ ConstructedLog
    /\ ConstructedLoop
    /\ Untouched
    /\ pc = "fill"

\* the call and the log it found
Called(level, msg) ==
    [op |-> "logMessage", level |-> level, msg |-> msg, before |-> LogState]

\* logMessage(level, msg)
LogCall ==
    /\ pc = "log"
    /\ steps < MaxLogCalls
    /\ \E level \in Levels, msg \in Messages :
          /\ SetLog(LogMessage(LogState, level, msg, millis, Time(Memory)))
          /\ last' = Called(level, msg)
    /\ millis' = U32Add(millis, 1)
    /\ steps' = steps + 1
    /\ UNCHANGED <<webVars, dataVars, epochOffset, lastPoll, lastLVGL, lastReconnectAttempt,
                   wifiConnected, pc, env, events>>

\* logMessage(msg), the overload without a level
LogInfoCall ==
    /\ pc = "log"
    /\ steps < MaxLogCalls
    /\ \E msg \in Messages :
          /\ SetLog(LogInfo(LogState, msg, millis, Time(Memory)))
          /\ last' = Called(LOG_LEVEL_INFO, msg)
    /\ millis' = U32Add(millis, 1)
    /\ steps' = steps + 1
    /\ UNCHANGED <<webVars, dataVars, epochOffset, lastPoll, lastLVGL, lastReconnectAttempt,
                   wifiConnected, pc, env, events>>

\* logMessage("boot") while the buffer is being filled
BootMessage ==
    /\ pc = "fill"
    /\ logTotal < MaxPriorCalls
    /\ SetLog(LogInfo(LogState, "boot", millis, Time(Memory)))
    /\ last' = Called(LOG_LEVEL_INFO, "boot")
    /\ millis' = U32Add(millis, 1)
    /\ UNCHANGED <<webVars, dataVars, epochOffset, lastPoll, lastLVGL, lastReconnectAttempt,
                   wifiConnected, pc, env, steps, events>>

\* the buffer is as full as the run wants it
Filled ==
    /\ pc = "fill"
    /\ logTotal \in PriorCalls
    /\ pc' = "log"
    /\ UNCHANGED <<webVars, dataVars, logVars, loopVars, wifiConnected, env, steps, events, last>>

NextLog == BootMessage \/ Filled \/ LogCall \/ LogInfoCall

SpecLog == InitLogCalls /\ [][NextLog]_vars

\* the level logMessage works with after its clamp
Clamped(level) == Min(level, LOG_LEVEL_VERBOSE)

\* the last step was a call that the ring buffer took
StoredCall == last.op = "logMessage" /\ logTotal # last.before.logTotal

\* C8: every call of logMessage at LOG_LEVEL_ERROR is stored in the ring buffer, in
\* the slot at the head, and is not counted as dropped.
C8_ErrorsAreStored ==
    (last.op = "logMessage" /\ last.level = LOG_LEVEL_ERROR) =>
        /\ logDropped = last.before.logDropped
        /\ logTotal = last.before.logTotal + 1
        /\ logBuffer[last.before.logHead].level = LOG_LEVEL_ERROR
        /\ logBuffer[last.before.logHead].message = CopyMessage(last.msg)

\* C9: the head stays in 0 .. LOG_BUFFER_SIZE-1 and the count in 0 .. LOG_BUFFER_SIZE,
\* logTotal = logCount + logOverwrites, logHead = logTotal mod LOG_BUFFER_SIZE; a
\* stored call writes the slot at the old head and no other, and counts an
\* overwrite exactly when the buffer was already full.
C9_RingBuffer ==
    /\ logHead \in 0..(LOG_BUFFER_SIZE - 1)
    /\ logCount \in 0..LOG_BUFFER_SIZE
    /\ logTotal = logCount + logOverwrites
    /\ logHead = logTotal % LOG_BUFFER_SIZE
    /\ StoredCall =>
          /\ \A i \in 0..(LOG_BUFFER_SIZE - 1) :
                i # last.before.logHead => logBuffer[i] = last.before.logBuffer[i]
          /\ logBuffer[last.before.logHead].level = Clamped(last.level)
          /\ logBuffer[last.before.logHead].message = CopyMessage(last.msg)
          /\ logBuffer[last.before.logHead].timestamp = U32Sub(millis, 1)
          /\ logTotal = last.before.logTotal + 1
          /\ logOverwrites = last.before.logOverwrites
                             + (IF last.before.logCount = LOG_BUFFER_SIZE THEN 1 ELSE 0)
          /\ logCount = Min(LOG_BUFFER_SIZE, last.before.logCount + 1)

\* a stored call found the buffer full with the head on the last slot: it overwrites
\* that slot and the head wraps to 0
C9_Witness ==
    /\ StoredCall
    /\ last.before.logCount = LOG_BUFFER_SIZE
    /\ last.before.logHead = LOG_BUFFER_SIZE - 1
    /\ logHead = 0
    /\ Len(last.msg) > MESSAGE_SIZE

\* C10: a call whose clamped level is below LOG_MIN_LEVEL adds one to logDropped and
\* leaves the buffer, the head, the count, the total and the overwrites as they
\* were; a call at or above LOG_MIN_LEVEL leaves logDropped as it was.
C10_DropFrame ==
    last.op = "logMessage" =>
        IF Clamped(last.level) < LOG_MIN_LEVEL
        THEN /\ logDropped = last.before.logDropped + 1
             /\ logBuffer = last.before.logBuffer
             /\ logHead = last.before.logHead
             /\ logCount = last.before.logCount
             /\ logTotal = last.before.logTotal
             /\ logOverwrites = last.before.logOverwrites
        ELSE logDropped = last.before.logDropped

\* a call below the minimum level was made and counted
C10_Witness ==
    /\ last.op = "logMessage"
    /\ Clamped(last.level) < LOG_MIN_LEVEL
    /\ logDropped = last.before.logDropped + 1
    /\ logDropped > 1

(***************************************************************************)
(* The selector alone: calls of getActiveLoadpoint some time apart, the    *)
(* charging flags changing in between as polls would change them           *)
(***************************************************************************)
\* calls of getActiveLoadpoint a run makes
MaxSelectorCalls == 4

\* changes of the charging flags a run makes
MaxFlagChanges == 1

\* the time from one call to the next: just under the rotation interval, the
\* interval itself, and weeks without a render (polls stop while WiFi is down)
SelectorDelays == {ROTATION_INTERVAL - 1, ROTATION_INTERVAL, INT32_MAX}

InitSelector ==
    /\ ConstructedData
    /\ ConstructedLog
    /\ ConstructedLoop
    /\ Untouched
    /\ pc = "select"

ChargingFlags(d) == <<d.lp1.charging, d.lp2.charging>>

\* the call before this one, as far as the next call's record keeps it
Earlier(call) ==
    IF call.op = "getActiveLoadpoint"
    THEN [made |-> TRUE, now |-> call.now, ret |-> call.ret, flags |-> call.flags]
    ELSE [made |-> FALSE, now |-> 0, ret |-> 0, flags |-> <<FALSE, FALSE>>]

\* getActiveLoadpoint has returned M.ret; before is the rotationState it found
SelectorReturned(M, before) ==
    /\ SetMemory(M)
    /\ last' = [op |-> "getActiveLoadpoint", now |-> M.millis, ret |-> M.ret,
                before |-> before, flags |-> ChargingFlags(M.data), prev |-> Earlier(last)]

\* getActiveLoadpoint(), d ms after the previous call
SelectorCall ==
    /\ pc = "select"
    /\ steps < MaxSelectorCalls
    /\ \E d \in SelectorDelays :
          SelectorReturned(GetActiveLoadpoint([Memory EXCEPT !.millis = U32Add(@, d)]),
                           rotationState)
    /\ steps' = steps + 1
    /\ UNCHANGED <<webVars, lastPoll, lastLVGL, lastReconnectAttempt, wifiConnected, pc, env, events>>

\* a poll decodes other charging flags
FlagChange ==
    /\ pc = "select"
    /\ events < MaxFlagChanges
    /\ \E c1 \in BOOLEAN, c2 \in BOOLEAN :
          /\ <<c1, c2>> # ChargingFlags(data)
          /\ data' = [data EXCEPT !.lp1.charging = c1, !.lp2.charging = c2]
    /\ events' = events + 1
    /\ UNCHANGED <<webVars, rotationState, stripe_applied, ui, logVars, loopVars, wifiConnected,
                   pc, env, steps, last>>

NextSelector == SelectorCall \/ FlagChange

SpecSel == InitSelector /\ [][NextSelector]_vars

\* the last step was a call that found exactly one loadpoint charging
CalledOneCharging ==
    last.op = "getActiveLoadpoint" /\ last.flags[1] # last.flags[2]

\* the last step was a call that found neither or both loadpoints charging
CalledRotating ==
    last.op = "getActiveLoadpoint" /\ last.flags[1] = last.flags[2]

\* ... and so did the call before it, with the same flags
CalledRotatingTwice ==
    CalledRotating /\ last.prev.made /\ last.prev.flags = last.flags

\* now - lastRotation of the last call, and the time since the call before it
SinceRotation == U32Sub(last.now, last.before.lastRotation)

SinceEarlierCall == U32Sub(last.now, last.prev.now)

\* C2: with exactly one loadpoint charging getActiveLoadpoint returns that one,
\* whatever rotationState and the clock are, and leaves rotationState as it was.
C2_ChargingWins ==
    CalledOneCharging =>
        /\ last.ret = (IF last.flags[1] THEN 1 ELSE 2)
        /\ rotationState = last.before

\* the second loadpoint alone charges, the selector points at the first and a
\* rotation would be due
C2_Witness ==
    /\ CalledOneCharging
    /\ last.flags[2]
    /\ last.before.currentLoadpoint
    /\ U32Ge(SinceRotation, ROTATION_INTERVAL)
    /\ last.ret = 2

\* C3 as claimed: with neither or both loadpoints charging, two calls less than
\* ROTATION_INTERVAL apart return the same loadpoint.
C3_CloseCallsAgree ==
    (CalledRotatingTwice /\ U32Lt(SinceEarlierCall, ROTATION_INTERVAL)) =>
        last.ret = last.prev.ret

\* C3 as amended: with neither or both loadpoints charging, a call made less than
\* ROTATION_INTERVAL after the last rotation returns the same loadpoint as the
\* call before it.
C3_NoRotationWithinInterval ==
    (CalledRotatingTwice /\ U32Lt(SinceRotation, ROTATION_INTERVAL)) =>
        last.ret = last.prev.ret

\* two calls in the same interval after a rotation to the second loadpoint
C3_Witness ==
    /\ CalledRotatingTwice
    /\ U32Lt(SinceRotation, ROTATION_INTERVAL)
    /\ SinceRotation > 0
    /\ last.ret = 2
    /\ last.prev.ret = 2

\* C4: with neither or both loadpoints charging, getActiveLoadpoint flips
\* currentLoadpoint and sets lastRotation to now exactly when
\* now - lastRotation >= ROTATION_INTERVAL and otherwise leaves rotationState as it
\* was; it returns the loadpoint currentLoadpoint selects afterwards; two such calls
\* at least ROTATION_INTERVAL apart return different loadpoints.
C4_Rotation ==
    /\ CalledRotating =>
          /\ rotationState =
                IF U32Ge(SinceRotation, ROTATION_INTERVAL)
                THEN [currentLoadpoint |-> ~last.before.currentLoadpoint,
                      lastRotation     |-> last.now]
                ELSE last.before
          /\ last.ret = (IF rotationState.currentLoadpoint THEN 1 ELSE 2)
    /\ (CalledRotatingTwice /\ U32Ge(SinceEarlierCall, ROTATION_INTERVAL)) =>
          last.ret # last.prev.ret

\* a rotation across the wrap of the millisecond counter, on to the second loadpoint
C4_Witness ==
    /\ CalledRotatingTwice
    /\ SinceEarlierCall = ROTATION_INTERVAL
    /\ last.before.lastRotation < 0
    /\ last.now >= 0
    /\ last.ret = 2
    /\ last.prev.ret = 1

(***************************************************************************)
(* The decode alone: calls of parseCombinedData on one body after another  *)
(***************************************************************************)
\* calls of parseCombinedData a run makes
MaxParses == 3

\* one loadpoint only, with a single phase current and hardly any other key
LpSinglePhase == [charging |-> TRUE, chargeCurrents |-> <<6100>>, maxCurrent |-> 16000]

DocOneLoadpoint == [pvPower |-> 900, homePower |-> 400, loadpoints |-> <<LpSinglePhase>>]

\* a null in the first slot of the array
DocNullFirst == [gridPower |-> 50, loadpoints |-> <<JNull, LpCharging>>]

Bodies ==
    {[wellFormed |-> TRUE, doc |-> doc] :
        doc \in {DocFull, DocBare, DocOneLoadpoint, DocNullFirst}} \cup {Garbled}

InitParse ==
    /\ ConstructedData
    /\ ConstructedLog
    /\ ConstructedLoop
    /\ Untouched
    /\ pc = "parse"

\* parseCombinedData has returned M.ret
ParseReturned(M, body, before) ==
    /\ SetMemory(M)
    /\ last' = [op |-> "parseCombinedData", body |-> body, ret |-> M.ret,
                before |-> before]

\* parseCombinedData(body), a second after the previous call
ParseCall ==
    /\ pc = "parse"
    /\ steps < MaxParses
    /\ \E body \in Bodies :
          ParseReturned(ParseCombinedData([Memory EXCEPT !.millis = U32Add(@, 1000)], body),
                        body, data)
    /\ steps' = steps + 1
    /\ UNCHANGED <<webVars, lastPoll, lastLVGL, lastReconnectAttempt, wifiConnected, pc, env, events>>

NextParse == ParseCall

SpecParse == InitParse /\ [][NextParse]_vars

\* element n of the loadpoints array of doc, if it has one that is not null
HasLoadpoint(doc, n) ==
    /\ "loadpoints" \in DOMAIN doc
    /\ Len(doc.loadpoints) > n
    /\ ~IsNull(doc.loadpoints[n + 1])

\* every field from the payload, or its default where the payload has none
FromPayload(doc, n, defaultTitle) ==
    IF HasLoadpoint(doc, n)
    THEN LET obj == doc.loadpoints[n + 1]
             currents == Get(obj, "chargeCurrents", <<>>)
         IN  [soc                |-> Get(obj, "soc", -1),
              chargePower        |-> Get(obj, "chargePower", 0),
              title              |-> Get(obj, "title", defaultTitle),
              vehicleTitle       |-> Get(obj, "vehicletitle", ""),
              charging           |-> Get(obj, "charging", FALSE),
              plugged            |-> Get(obj, "plugged", FALSE),
              vehicleRange       |-> Get(obj, "vehicleRange", -1),
              effectivePlanTime  |-> Get(obj, "effectivePlanTime", ""),
              effectivePlanSoc   |-> Get(obj, "effectivePlanSoc", -1),
              effectiveLimitSoc  |-> Get(obj, "effectiveLimitSoc", -1),
              planProjectedStart |-> Get(obj, "planProjectedStart", ""),
              chargeCurrents     |-> [i \in 0..2 |->
                                        IF i < Len(currents) THEN currents[i + 1] ELSE 0],
              maxCurrent         |-> Get(obj, "maxCurrent", 0),
              offeredCurrent     |-> Get(obj, "offeredCurrent", 0),
              phasesActive       |-> Get(obj, "phasesActive", 0)]
    ELSE DefaultLoadpoint

\* lp is what the payload says; a loadpoint the payload does not have may carry
\* the default title of its slot or none
Replaced(lp, doc, n, defaultTitle) ==
    \/ lp = FromPayload(doc, n, defaultTitle)
    \/ ~HasLoadpoint(doc, n) /\ lp = [DefaultLoadpoint EXCEPT !.title = defaultTitle]

\* C1: after a successful parseCombinedData every field of lp1 and lp2 is the
\* payload's value or the field's default, nothing decoded earlier survives; without
\* loadpoints in the payload both are fully unknown; phases missing from a short
\* chargeCurrents array are 0.
C1_LoadpointsReplaced ==
    (last.op = "parseCombinedData" /\ last.ret) =>
        /\ Replaced(data.lp1, last.body.doc, 0, "LP1")
        /\ Replaced(data.lp2, last.body.doc, 1, "LP2")

\* C5: a body that cannot be deserialized makes parseCombinedData return failure
\* and leaves every field of the snapshot as it was.
C5_FailedDecodeKeepsSnapshot ==
    (last.op = "parseCombinedData" /\ ~last.body.wellFormed) =>
        /\ last.ret = FALSE
        /\ data = last.before

\* a garbled body arrived after a snapshot had been decoded
C5_Witness ==
    /\ last.op = "parseCombinedData"
    /\ ~last.body.wellFormed
    /\ data.lp1.charging
    /\ data.pvPower > 0
    /\ logDropped > 0

(***************************************************************************)
(* Properties of the firmware (Spec)                                       *)
(***************************************************************************)
\* the step is a poll that failed: the only place the failure count goes up
FailedPoll == data'.consecutiveFailures = data.consecutiveFailures + 1

\* the step reaches ESP.restart()
Restarts == pc = "loop" /\ pc' = "restart"

\* C6 as claimed: the restart comes with the failed poll that makes it 50 in a row,
\* so the firmware never runs on with 50 or more consecutive failures.
C6_RestartAtThreshold ==
    pc = "loop" => data.consecutiveFailures < MAX_CONSECUTIVE_FAILURES

\* C6 as amended: the restart comes with the failed poll that makes it 51 in a
\* row, exactly then, and never with 50 or fewer.
C6_RestartPastThreshold ==
    [][/\ Restarts <=> (pc = "loop" /\ FailedPoll
                        /\ data'.consecutiveFailures = MAX_CONSECUTIVE_FAILURES + 1)
       /\ pc = "loop" => data.consecutiveFailures <= MAX_CONSECUTIVE_FAILURES]_vars

\* the firmware has restarted after its 51st failed poll in a row
C6_Witness ==
    /\ pc = "restart"
    /\ data.consecutiveFailures = MAX_CONSECUTIVE_FAILURES + 1
    /\ steps = MAX_CONSECUTIVE_FAILURES + 2

\* the loadpoint the last render showed: rotationState is touched by renders only
ShownLoadpoint ==
    IF data.lp1.charging /\ ~data.lp2.charging THEN 1
    ELSE IF data.lp2.charging /\ ~data.lp1.charging THEN 2
    ELSE Selected(rotationState)

\* the display u after a render of snapshot d with loadpoint `which` active
Rendered(u, d, which) ==
    [UpdateBars(UpdateRows(u, d), d) EXCEPT
        !.car = [UpdateCar(@, ActiveLP(d, which)) EXCEPT
                    !.soc_bar.stripe = IF ActiveLP(d, which).soc >= 0
                                       THEN ActiveLP(d, which).charging ELSE @]]

\* every value updateUI sets is the one it sets for the snapshot in memory
ShowsSnapshot == ui = Rendered(ui, data, ShownLoadpoint)

\* the placeholders of createUI, and nothing decoded so far
ShowsPlaceholders ==
    /\ ui = CreateUI
    /\ [data EXCEPT !.consecutiveFailures = 0] = DefaultData

\* C7 as claimed: after setup, on either path, the display shows the render of the
\* snapshot decoded last, or of the default snapshot before any decode.
C7_DisplayIsRender == pc = "loop" => ShowsSnapshot

\* C7 as amended: after setup the display shows the render of the snapshot
\* decoded last (of the default snapshot before any decode), except that after a
\* setup without WiFi it shows the placeholders of createUI until a poll succeeds;
\* a failed poll changes nothing on the display.
C7_DisplayFollowsDecodes ==
    [][/\ pc' = "loop" => (ShowsSnapshot' \/ ShowsPlaceholders')
       /\ FailedPoll => ui' = ui]_vars

\* polls are failing after one that succeeded: the display still shows its values
C7_Witness ==
    /\ pc = "loop"
    /\ data.consecutiveFailures > 1
    /\ data.lastUpdate > 0
    /\ ui.car.power_label = "7.0kW"
    /\ ui.generation.value2.text = "1.5kW"
    /\ ShowsSnapshot

(***************************************************************************)
(* The log shared by the loop context and the web context (SpecWeb)        *)
(*                                                                         *)
(* logMessage runs in the loop context and the /logs handler of            *)
(* webserver.h in the task of the web server.  Both are taken statement by *)
(* statement; logCall and logsRequest hold their positions and locals.     *)
(* last.stored is the history of the entries handed to the buffer, in the  *)
(* order of the calls' critical sections.                                  *)
(***************************************************************************)
\* calls of logMessage made while requests are served
MaxWebLogCalls == 2

\* /logs requests
MaxLogsRequests == 1

\* calls of logMessage before the web server starts, at most
MaxWebPriorCalls == 101

\* the buffer when the server starts: nearly empty, one short of full, wrapped
WebPriorCalls == {1, LOG_BUFFER_SIZE - 1, MaxWebPriorCalls}

\* the levels the loop context logs with, and a level past the clamp
WebLevels == {LOG_LEVEL_ERROR, LOG_LEVEL_INFO, UINT8 - 1}

\* a slip: the section is entered without waiting for the lock
EnterCritical_NoSpin(owner) == logMux' = owner

\* portENTER_CRITICAL(&logMux): spins until the lock is free, then holds it
EnterCritical(owner) == logMux = "free" /\ logMux' = owner

\* portEXIT_CRITICAL(&logMux)
ExitCritical(owner) == logMux' = "free"

\* the members of a slot in the order logMessage writes them
SlotFields == <<"timestamp", "epoch", "level", "message">>

\* the value logMessage writes to a member of the slot
SlotValue(call, field) ==
    CASE field = "timestamp" -> call.nowMs
      [] field = "epoch"     -> call.nowEpoch
      [] field = "level"     -> call.level
      [] field = "message"   -> CopyMessage(call.msg)

\* idx of the /logs copy loop
SnapshotIndex(i, snapCount) ==
    (logHead - snapCount + i + LOG_BUFFER_SIZE) % LOG_BUFFER_SIZE

InitWeb ==
    /\ ConstructedData
    /\ ConstructedLog
    /\ ConstructedLoop
    /\ env = Healthy(DocFull)
    /\ steps = 0
    /\ events = 0
    /\ logCall = NoCall
    /\ logsRequest = NoRequest
    /\ last = [op |-> "/logs", stored |-> <<>>, began |-> 0]
    /\ pc = "fill"

\* setup logs before startWebServer: no other context is running yet
WebBoot ==
    /\ pc = "fill"
    /\ logTotal < MaxWebPriorCalls
    /\ SetLog(LogInfo(LogState, "boot", millis, Time(Memory)))
    /\ last' = [last EXCEPT !.stored =
                    Append(@, LogEntry(millis, Time(Memory), LOG_LEVEL_INFO, "boot"))]
    /\ millis' = U32Add(millis, 1)
    /\ UNCHANGED <<webVars, dataVars, epochOffset, lastPoll, lastLVGL,
                   lastReconnectAttempt, wifiConnected, pc, env, steps, events>>

\* startWebServer
WebStarted ==
    /\ pc = "fill"
    /\ logTotal \in WebPriorCalls
    /\ pc' = "serve"
    /\ UNCHANGED <<webVars, dataVars, logVars, loopVars, wifiConnected, env, steps,
                   events, last>>

\* logMessage(level, msg) is called: the clamp of its first line
CallBegin ==
    /\ pc = "serve"
    /\ logCall.pc = "idle"
    /\ steps < MaxWebLogCalls
    /\ \E level \in WebLevels :
          logCall' = [pc |-> "test", level |-> ClampLevel(level), msg |-> "poll"]
    /\ steps' = steps + 1
    /\ UNCHANGED <<logMux, logsRequest, dataVars, logVars, loopVars, wifiConnected,
                   pc, env, events, last>>

\* if (level < LOG_MIN_LEVEL) { logDropped++; return; }
CallTest ==
    /\ logCall.pc = "test"
    /\ IF logCall.level < LOG_MIN_LEVEL
       THEN /\ logDropped' = U32Add(logDropped, 1)
            /\ logCall' = NoCall
       ELSE /\ logDropped' = logDropped
            /\ logCall' = [logCall EXCEPT !.pc = "time"]
    /\ UNCHANGED <<logMux, logsRequest, dataVars, logBuffer, logHead, logCount,
                   logTotal, logOverwrites, loopVars, wifiConnected, pc, env, steps,
                   events, last>>

\* nowMs = millis(); nowEpoch = time(nullptr);
CallTime ==
    /\ logCall.pc = "time"
    /\ logCall' = [pc |-> "enter", level |-> logCall.level, msg |-> logCall.msg,
                   nowMs |-> millis, nowEpoch |-> Time(Memory)]
    /\ millis' = U32Add(millis, 1)
    /\ UNCHANGED <<logMux, logsRequest, dataVars, logVars, epochOffset, lastPoll,
                   lastLVGL, lastReconnectAttempt, wifiConnected, pc, env, steps,
                   events, last>>

\* portENTER_CRITICAL; LogEntry &slot = logBuffer[logHead];
CallEnter ==
    /\ logCall.pc = "enter"
    /\ EnterCritical("loop")
    /\ logCall' = [pc |-> "slot", level |-> logCall.level, msg |-> logCall.msg,
                   nowMs |-> logCall.nowMs, nowEpoch |-> logCall.nowEpoch,
                   slot |-> logHead, field |-> 1]
    /\ last' = [last EXCEPT !.stored =
                    Append(@, LogEntry(logCall.nowMs, logCall.nowEpoch, logCall.level,
                                       CopyMessage(logCall.msg)))]
    /\ UNCHANGED <<logsRequest, dataVars, logVars, loopVars, wifiConnected, pc, env,
                   steps, events>>

\* slot.timestamp = ..., slot.epoch = ..., slot.level = ..., the copy of the message
CallWrite ==
    /\ logCall.pc = "slot"
    /\ logBuffer' = [logBuffer EXCEPT ![logCall.slot][SlotFields[logCall.field]] =
                        SlotValue(logCall, SlotFields[logCall.field])]
    /\ logCall' = IF logCall.field < Len(SlotFields)
                  THEN [logCall EXCEPT !.field = @ + 1]
                  ELSE [logCall EXCEPT !.pc = "head"]
    /\ UNCHANGED <<logMux, logsRequest, dataVars, logHead, logCount, logTotal,
                   logOverwrites, logDropped, loopVars, wifiConnected, pc, env, steps,
                   events, last>>

\* logHead = (logHead + 1) % LOG_BUFFER_SIZE;
CallHead ==
    /\ logCall.pc = "head"
    /\ logHead' = (logHead + 1) % LOG_BUFFER_SIZE
    /\ logCall' = [logCall EXCEPT !.pc = "count"]
    /\ UNCHANGED <<logMux, logsRequest, dataVars, logBuffer, logCount, logTotal,
                   logOverwrites, logDropped, loopVars, wifiConnected, pc, env, steps,
                   events, last>>

\* if (logCount < LOG_BUFFER_SIZE) logCount++; else logOverwrites++;
CallCount ==
    /\ logCall.pc = "count"
    /\ IF logCount < LOG_BUFFER_SIZE
       THEN logCount' = logCount + 1 /\ logOverwrites' = logOverwrites
       ELSE logCount' = logCount /\ logOverwrites' = U32Add(logOverwrites, 1)
    /\ logCall' = [logCall EXCEPT !.pc = "total"]
    /\ UNCHANGED <<logMux, logsRequest, dataVars, logBuffer, logHead, logTotal,
                   logDropped, loopVars, wifiConnected, pc, env, steps, events, last>>

\* logTotal++;
CallTotal ==
    /\ logCall.pc = "total"
    /\ logTotal' = U32Add(logTotal, 1)
    /\ logCall' = [logCall EXCEPT !.pc = "exit"]
    /\ UNCHANGED <<logMux, logsRequest, dataVars, logBuffer, logHead, logCount,
                   logOverwrites, logDropped, loopVars, wifiConnected, pc, env, steps,
                   events, last>>

\* portEXIT_CRITICAL, and the return
CallExit ==
    /\ logCall.pc = "exit"
    /\ ExitCritical("loop")
    /\ logCall' = NoCall
    /\ UNCHANGED <<logsRequest, dataVars, logVars, loopVars, wifiConnected, pc, env,
                   steps, events, last>>

\* a GET /logs arrives: LogEntry snapshot[LOG_BUFFER_SIZE]; snapCount = 0; snapHead = 0;
LogsBegin ==
    /\ pc = "serve"
    /\ logsRequest.pc \in {"idle", "done"}
    /\ events < MaxLogsRequests
    /\ logsRequest' = [pc |-> "enter", snapshot |-> <<>>, snapCount |-> 0,
                       snapHead |-> 0, i |-> 0]
    /\ last' = [last EXCEPT !.began = Len(last.stored)]
    /\ events' = events + 1
    /\ UNCHANGED <<logMux, logCall, dataVars, logVars, loopVars, wifiConnected, pc,
                   env, steps>>

\* portENTER_CRITICAL(&logMux);
LogsEnter ==
    /\ logsRequest.pc = "enter"
    /\ EnterCritical("web")
    /\ logsRequest' = [logsRequest EXCEPT !.pc = "count"]
    /\ UNCHANGED <<logCall, dataVars, logVars, loopVars, wifiConnected, pc, env,
                   steps, events, last>>

\* snapCount = logCount; snapHead = logHead;
LogsCount ==
    /\ logsRequest.pc = "count"
    /\ logsRequest' = [logsRequest EXCEPT !.pc = "copy", !.snapCount = logCount,
                                          !.snapHead = logHead]
    /\ UNCHANGED <<logMux, logCall, dataVars, logVars, loopVars, wifiConnected, pc,
                   env, steps, events, last>>

\* for (i < snapCount) snapshot[i] = logBuffer[idx];  one assignment at a time
LogsCopy ==
    /\ logsRequest.pc = "copy"
    /\ logsRequest' =
          IF logsRequest.i < logsRequest.snapCount
          THEN [logsRequest EXCEPT
                  !.snapshot = Append(@, logBuffer[SnapshotIndex(logsRequest.i,
                                                                 logsRequest.snapCount)]),
                  !.i = @ + 1]
          ELSE [logsRequest EXCEPT !.pc = "exit"]
    /\ UNCHANGED <<logMux, logCall, dataVars, logVars, loopVars, wifiConnected, pc,
                   env, steps, events, last>>

\* portEXIT_CRITICAL(&logMux); the page is built from the snapshot
LogsExit ==
    /\ logsRequest.pc = "exit"
    /\ ExitCritical("web")
    /\ logsRequest' = [logsRequest EXCEPT !.pc = "done"]
    /\ UNCHANGED <<logCall, dataVars, logVars, loopVars, wifiConnected, pc, env,
                   steps, events, last>>

\* the /logs page, built after the critical section: "Total:" + String(logTotal)
LogsPageTotal ==
    /\ logsRequest.pc = "done"
    /\ "total" \notin DOMAIN logsRequest
    /\ logsRequest' = logsRequest @@ [total |-> logTotal]
    /\ UNCHANGED <<logMux, logCall, dataVars, logVars, loopVars, wifiConnected, pc,
                   env, steps, events, last>>

\* " Visible:" + String(snapCount) + " Overwrites:" + String(logOverwrites)
LogsPageOverwrites ==
    /\ logsRequest.pc = "done"
    /\ "total" \in DOMAIN logsRequest
    /\ "overwrites" \notin DOMAIN logsRequest
    /\ logsRequest' = logsRequest @@ [overwrites |-> logOverwrites]
    /\ UNCHANGED <<logMux, logCall, dataVars, logVars, loopVars, wifiConnected, pc,
                   env, steps, events, last>>

\* the counters /status reports, in the order the handler reads them
StatusFields == <<"total", "count", "overwrites">>

\* the counter read for logStats[field]
StatusValue(field) ==
    CASE field = "total"      -> logTotal
      [] field = "count"      -> logCount
      [] field = "overwrites" -> logOverwrites

\* a GET /status arrives; the handler takes no lock
StatusBegin ==
    /\ pc = "serve"
    /\ logsRequest.pc \in {"idle", "done"}
    /\ events < MaxLogsRequests
    /\ logsRequest' = [pc |-> "status", log |-> <<>>]
    /\ events' = events + 1
    /\ UNCHANGED <<logMux, logCall, dataVars, logVars, loopVars, wifiConnected, pc,
                   env, steps, last>>

\* logStats["total"] = logTotal; logStats["count"] = logCount;
\* logStats["overwrites"] = logOverwrites;  one assignment at a time
StatusRead ==
    /\ logsRequest.pc = "status"
    /\ Len(logsRequest.log) < Len(StatusFields)
    /\ logsRequest' = [logsRequest EXCEPT
                          !.log = Append(@, StatusValue(StatusFields[Len(@) + 1]))]
    /\ UNCHANGED <<logMux, logCall, dataVars, logVars, loopVars, wifiConnected, pc,
                   env, steps, events, last>>

NextWeb ==
    \/ WebBoot \/ WebStarted
    \/ CallBegin \/ CallTest \/ CallTime \/ CallEnter \/ CallWrite \/ CallHead
    \/ CallCount \/ CallTotal \/ CallExit
    \/ LogsBegin \/ LogsEnter \/ LogsCount \/ LogsCopy \/ LogsExit
    \/ LogsPageTotal \/ LogsPageOverwrites
    \/ StatusBegin \/ StatusRead

SpecWeb == InitWeb /\ [][NextWeb]_vars

\* the entries copied so far are those that follow the first of the newest
\* Min(k, LOG_BUFFER_SIZE) of the first k entries stored
CopiedAsOf(k) ==
    LET n == Min(k, LOG_BUFFER_SIZE) IN
    /\ logsRequest.snapCount = n
    /\ Len(logsRequest.snapshot) <= n
    /\ \A j \in 1..Len(logsRequest.snapshot) :
          logsRequest.snapshot[j] = last.stored[k - n + j]
    /\ logsRequest.pc \in {"exit", "done"} => Len(logsRequest.snapshot) = n

\* C11: whatever the loop context logs while a /logs request runs, the snapshot of
\* the request consists of complete entries, oldest first, and is the newest
\* min(logTotal, LOG_BUFFER_SIZE) entries stored as of one instant of the request.
C11_SnapshotIsConsistent ==
    logsRequest.pc \in {"copy", "exit", "done"} =>
        \E k \in last.began..Len(last.stored) : CopiedAsOf(k)

\* a full snapshot was taken while a call of logMessage was waiting to store;
\* the call has stored since, over the oldest entry of the snapshot
C11_Witness ==
    /\ logsRequest.pc = "done"
    /\ Len(logsRequest.snapshot) = LOG_BUFFER_SIZE
    /\ Len(last.stored) > last.began
    /\ logOverwrites > 0
    /\ logBuffer[logsRequest.snapHead].message = "poll"
    /\ logsRequest.snapshot[1].message = "boot"
    /\ logBuffer[logsRequest.snapHead] # logsRequest.snapshot[1]

(***************************************************************************)
(* pollEVCCData call by call, after setup (SpecPoll)                       *)
(***************************************************************************)
\* calls of pollEVCCData
MaxPolls == 3

InitPoll ==
    /\ ConstructedData
    /\ ConstructedLog
    /\ ConstructedLoop
    /\ Untouched
    /\ pc = "boot"

\* pollEVCCData has returned M.ret
PollCallReturned(M, e, before) ==
    /\ SetMemory(M)
    /\ last' = [op |-> "pollEVCCData", env |-> e, ret |-> M.ret, before |-> before]

\* pollEVCCData(), POLL_INTERVAL after the previous call, answered by e
PollCallAt(M, e) == PollCallReturned(PollEVCCData(M, e), e, M)

PollCall ==
    /\ pc = "loop"
    /\ steps < MaxPolls
    /\ \E e \in Modes : PollCallAt(Elapse(Memory, POLL_INTERVAL), e)
    /\ steps' = steps + 1
    /\ UNCHANGED <<webVars, lastPoll, lastLVGL, lastReconnectAttempt, wifiConnected,
                   pc, env, events>>

NextPoll == RunSetup \/ PollCall

SpecPoll == InitPoll /\ [][NextPoll]_vars

\* the call found less free heap than a request needs
CalledLowHeap ==
    /\ last.op = "pollEVCCData"
    /\ last.env.free_heap < MIN_HEAP_FOR_REQUEST

\* C12: with less than 16000 bytes of free heap at its start pollEVCCData skips the
\* poll: no request goes out (no time is spent on one and none is logged), nothing
\* is decoded or rendered, and telemetry, rotationState and display stay as they
\* were.  The only entry stored is the one that announces the poll.
C12_LowHeapSkipsPoll ==
    CalledLowHeap =>
        /\ last.ret = FALSE
        /\ data = last.before.data
        /\ rotationState = last.before.rotationState
        /\ stripe_applied = last.before.stripe_applied
        /\ ui = last.before.ui
        /\ millis = last.before.millis
        /\ logTotal = U32Add(last.before.log.logTotal, 1)
        /\ logBuffer[last.before.log.logHead].message =
              "Starting poll - Free heap: n bytes"

\* the poll was skipped while the display showed a decoded snapshot and the server
\* would have answered
C12_Witness ==
    /\ CalledLowHeap
    /\ last.env.http_code = HTTP_CODE_OK
    /\ data.lastUpdate > 0
    /\ ui.created
    /\ ui.car.power_label = "7.0kW"
    /\ logDropped > last.before.log.logDropped

(***************************************************************************)
(* updateCompositeBar on bars that show a decoded snapshot (SpecBar)       *)
(***************************************************************************)
\* the small magnitudes 0 .. MaxSmallMagnitude are all tried
MaxSmallMagnitude == 2

\* a bar narrower than the IN and OUT bars
NarrowBarWidth == 100

\* float values[i]: whole watts, never negative
BarMagnitudes == 0..MaxSmallMagnitude \cup {200, 800, 1500, 5000}

BarWidths == {COMPOSITE_BAR_WIDTH, NarrowBarWidth}

\* the bars of the display with their segment counts and abbreviations
Bars ==
    { [name |-> "in_bar", segmentCount |-> 3, names |-> inNames],
      [name |-> "out_bar", segmentCount |-> 4, names |-> outNames] }

\* the display after setup has rendered the snapshot of DocFull
InitBar ==
    /\ data = DecodeDocument(DefaultData, DocFull)
    /\ rotationState = DefaultRotation
    /\ stripe_applied = FALSE
    /\ ui = UpdateBars(CreateUI, DecodeDocument(DefaultData, DocFull))
    /\ ConstructedLog
    /\ ConstructedLoop
    /\ Untouched
    /\ pc = "bar"

\* updateCompositeBar(container, segments, labels, values, segmentCount, barWidth)
BarCall ==
    /\ pc = "bar"
    /\ \E b \in Bars, barWidth \in BarWidths :
       \E values \in [0..(b.segmentCount - 1) -> BarMagnitudes] :
          /\ ui' = [ui EXCEPT ![b.name] =
                       UpdateCompositeBar(@, values, b.segmentCount, barWidth, b.names)]
          /\ last' = [op |-> "updateCompositeBar", bar |-> b.name, values |-> values,
                      segmentCount |-> b.segmentCount, barWidth |-> barWidth]
    /\ pc' = "drawn"
    /\ UNCHANGED <<webVars, data, rotationState, stripe_applied, logVars, loopVars,
                   wifiConnected, env, steps, events>>

NextBar == BarCall

SpecBar == InitBar /\ [][NextBar]_vars

\* the segments of the bar the call was about
Drawn == ui[last.bar].segments

RECURSIVE SumOfValues(_, _)
SumOfValues(values, n) ==
    IF n = 0 THEN 0 ELSE SumOfValues(values, n - 1) + values[n - 1]

\* the widths of the shown ones among the first n segments, added up
RECURSIVE ShownWidth(_, _)
ShownWidth(segments, n) ==
    IF n = 0 THEN 0
    ELSE ShownWidth(segments, n - 1)
         + (IF segments[n - 1].hidden THEN 0 ELSE segments[n - 1].width)

\* the call had at least a watt to show
CalledWithPower ==
    /\ last.op = "updateCompositeBar"
    /\ SumOfValues(last.values, last.segmentCount) >= 1

\* C13: for magnitudes that add up to at least 1 the widths of the shown segments
\* add up to at most the bar width, and every shown segment is at least 1 wide.
C13_WidthsFitBar ==
    CalledWithPower =>
        /\ ShownWidth(Drawn, last.segmentCount) <= last.barWidth
        /\ \A i \in 0..(last.segmentCount - 1) :
              ~Drawn[i].hidden => Drawn[i].width >= 1

\* value * barWidth / total rounded to the nearest whole pixel
RoundedShare(value, total, barWidth) == (2 * value * barWidth + total) \div (2 * total)

IsWholePart(w, value, total, barWidth) ==
    /\ w * total <= value * barWidth
    /\ value * barWidth < (w + 1) * total

C15_BarVisibility ==
    last.op = "updateCompositeBar" =>
        IF SumOfValues(last.values, last.segmentCount) < 1
        THEN /\ ui[last.bar].hidden
             /\ \A i \in 0..(last.segmentCount - 1) :
                   Drawn[i].hidden /\ Drawn[i].label_hidden
        ELSE /\ ~ui[last.bar].hidden
             /\ \A i \in 0..(last.segmentCount - 1) :
                   /\ Drawn[i].hidden <=> ~(last.values[i] > 0)
                   /\ Drawn[i].hidden => Drawn[i].label_hidden

\* the consumption segment and its label, shown before the call, are hidden by a
\* call that has power for the grid segment only
C15_Witness ==
    /\ last.op = "updateCompositeBar"
    /\ last.bar = "out_bar"
    /\ last.values = [i \in 0..3 |-> <<0, 0, 0, 800>>[i + 1]]
    /\ ~ui.out_bar.hidden
    /\ Drawn[0].hidden /\ Drawn[0].label_hidden /\ Drawn[0].width > 0
    /\ ~Drawn[3].hidden /\ ~Drawn[3].label_hidden


(***************************************************************************)
(* updateUI snapshot by snapshot: setup, then two polls (SpecRender)       *)
(***************************************************************************)
\* the largest percentage of a plan or limit SoC
MaxPercent == 100

\* powers around POWER_ACTIVE_THRESHOLD, in both directions
FlowPowers == {-1500, -POWER_ACTIVE_THRESHOLD, 1 - POWER_ACTIVE_THRESHOLD, 0,
               POWER_ACTIVE_THRESHOLD - 1, POWER_ACTIVE_THRESHOLD, 1500}

\* the snapshot of the end-to-end scenario: no loadpoints in the payload
DocFlows ==
    [gridPower |-> -200, pvPower |-> 1500, homePower |-> 800, batteryPower |-> 0,
     batterySoc |-> 62]

\* a loadpoint of the payload with the fields the vehicle panel depends on
LpCase(charging, soc, planSoc, limitSoc) ==
    [LpCharging EXCEPT !.charging = charging, !.soc = soc,
                       !.chargePower = IF charging THEN 7000 ELSE 0,
                       !.effectivePlanSoc = planSoc, !.effectiveLimitSoc = limitSoc]

\* a payload with the given loadpoints
DocWith(loadpoints) ==
    [gridPower |-> -200, pvPower |-> 1500, homePower |-> 800, batteryPower |-> 0,
     batterySoc |-> 62, loadpoints |-> loadpoints]

\* the scenario with one flow, or the loadpoint power, varied
FlowDocs ==
    {[DocFlows EXCEPT ![k] = p] :
        k \in {"gridPower", "pvPower", "homePower", "batteryPower"}, p \in FlowPowers}
    \cup {DocWith(<<[LpIdle EXCEPT !.plugged = TRUE] @@ [chargePower |-> p]>>) :
            p \in FlowPowers}

\* the first loadpoint charging or not, its SoC, plan and limit known or not; the
\* second one idle, or charging with its SoC unknown
LoadpointDocs ==
    {DocWith(<<LpCase(c, s, p, l), lp2>>) :
        c \in BOOLEAN, s \in {-1, 55}, p \in {-1, 0, 80}, l \in {-1, 0, 90},
        lp2 \in {LpIdle, [LpIdle EXCEPT !.charging = TRUE]}}

\* plan and limit at every percentage
PercentDocs == {DocWith(<<LpCase(TRUE, 55, p, p)>>) : p \in 0..MaxPercent}

\* offered and charge currents in mA: none, below and at 0.1 A, fractions of
\* maxCurrent, maxCurrent and above, and a negative reading
PhaseCurrents == {-1000, 0, 50, 99, 100, 500, 8000, 15900, 16000, 20000}

\* a charging loadpoint with the offered current and the current of phase 0 varied
PhaseDocs ==
    {DocWith(<<[LpCharging EXCEPT !.offeredCurrent = o,
                                  !.chargeCurrents = <<c, 15900, 0>>,
                                  !.phasesActive = n]>>) :
        o \in PhaseCurrents, c \in PhaseCurrents, n \in {2, 3}}

RenderDocs == FlowDocs \cup LoadpointDocs \cup PercentDocs \cup PhaseDocs

\* what the display showed before the snapshot under test
FirstDocs == {DocFull, DocFlows, DocWith(<<LpCase(FALSE, 55, 0, 0), LpIdle>>)}

InitRender ==
    /\ ConstructedData
    /\ ConstructedLog
    /\ ConstructedLoop
    /\ Untouched
    /\ pc = "boot"

FirstRender ==
    /\ pc = "loop"
    /\ \E doc \in FirstDocs : PollCallAt(Elapse(Memory, POLL_INTERVAL), Healthy(doc))
    /\ pc' = "first"
    /\ UNCHANGED <<webVars, lastPoll, lastLVGL, lastReconnectAttempt, wifiConnected,
                   env, steps, events>>

SecondRender ==
    /\ pc = "first"
    /\ \E doc \in RenderDocs : PollCallAt(Elapse(Memory, POLL_INTERVAL), Healthy(doc))
    /\ pc' = "second"
    /\ UNCHANGED <<webVars, lastPoll, lastLVGL, lastReconnectAttempt, wifiConnected,
                   env, steps, events>>

NextRender == RunSetup \/ FirstRender \/ SecondRender

SpecRender == InitRender /\ [][NextRender]_vars

\* the last poll decoded doc and rendered it
RenderedDoc(doc) ==
    /\ last.op = "pollEVCCData"
    /\ last.ret
    /\ last.env.body.doc = doc

\* a poll has decoded a payload and rendered it
RenderedAny == last.op = "pollEVCCData" /\ last.ret

\* the loadpoint the selector returned in the last render
ActiveLoadpoint == ActiveLP(data, ShownLoadpoint)

\* C16 as claimed: for the scenario snapshot the OUT bar shows the consumption
\* segment alone, as wide as the bar; loadpoint, battery-in and grid-out are hidden.
C16_OutBarConsumptionOnly ==
    RenderedDoc(DocFlows) =>
        /\ ~ui.out_bar.hidden
        /\ ~ui.out_bar.segments[0].hidden
        /\ ui.out_bar.segments[0].width = COMPOSITE_BAR_WIDTH
        /\ \A i \in 1..3 : ui.out_bar.segments[i].hidden

\* C16: for the scenario snapshot the OUT bar shows two segments: consumption at
\* 800/1000 of the bar width from the left edge and, next to it, the 200 W fed
\* into the grid at 200/1000 of it; loadpoint and battery-in are hidden.
C16_OutBarConsumptionAndFeedIn ==
    RenderedDoc(DocFlows) =>
        /\ ~ui.out_bar.hidden
        /\ ~ui.out_bar.segments[0].hidden
        /\ ui.out_bar.segments[0].x = 0
        /\ ui.out_bar.segments[0].width = (800 * COMPOSITE_BAR_WIDTH) \div 1000
        /\ ui.out_bar.segments[1].hidden
        /\ ui.out_bar.segments[2].hidden
        /\ ~ui.out_bar.segments[3].hidden
        /\ ui.out_bar.segments[3].x = (800 * COMPOSITE_BAR_WIDTH) \div 1000
        /\ ui.out_bar.segments[3].width = (200 * COMPOSITE_BAR_WIDTH) \div 1000

\* the scenario snapshot rendered over a display that showed a charging loadpoint
C16_Witness ==
    /\ RenderedDoc(DocFlows)
    /\ pc = "second"
    /\ last.before.data.lp1.chargePower = 7000
    /\ data.lp1.chargePower = 0
    /\ ~ui.out_bar.segments[3].hidden
    /\ ui.out_bar.segments[3].width = 72


\* C17 as claimed: after every render the stripe is on the SoC bar exactly when the
\* loadpoint the selector returned in that render is charging, whatever its SoC.
C17_StripeIffCharging ==
    RenderedAny => (ui.car.soc_bar.stripe <=> ActiveLoadpoint.charging)


\* C18 as claimed: on the 448 px SoC bar a shown marker lies within the bar for
\* every percentage from 0 to 100: the 2 px plan marker at an x from 0 to 446,
\* the 6 px limit marker at an x from 0 to 442.
C18_MarkersWithinBar ==
    /\ SocBarWidth = 448
    /\ (/\ RenderedAny
        /\ ActiveLoadpoint.effectivePlanSoc <= 100
        /\ ActiveLoadpoint.effectiveLimitSoc <= 100)
       => /\ ~ui.car.plan_soc_marker.hidden
                => ui.car.plan_soc_marker.x \in 0..(SocBarWidth - 2)
          /\ ~ui.car.limit_soc_marker.hidden
                => ui.car.limit_soc_marker.x \in 0..(SocBarWidth - 6)


\* C19: after every render the plan marker is visible exactly when the plan SoC of
\* the active loadpoint is above 0 (0 and -1 hide it), and the limit marker exactly
\* when its limit SoC is 0 or more (0 shows it, -1 hides it).
C19_MarkerVisibility ==
    RenderedAny =>
        /\ ~ui.car.plan_soc_marker.hidden <=> ActiveLoadpoint.effectivePlanSoc > 0
        /\ ~ui.car.limit_soc_marker.hidden <=> ActiveLoadpoint.effectiveLimitSoc >= 0

\* plan and limit both 0: the plan marker, shown before, is hidden and the limit
\* marker is shown
C19_Witness ==
    /\ RenderedAny
    /\ pc = "second"
    /\ ActiveLoadpoint.effectivePlanSoc = 0
    /\ ActiveLoadpoint.effectiveLimitSoc = 0
    /\ ~last.before.ui.car.plan_soc_marker.hidden
    /\ ui.car.plan_soc_marker.hidden
    /\ ~ui.car.limit_soc_marker.hidden
    /\ ui.car.limit_soc_marker.x = 0


\* the colour a power-flow row is drawn in: its description and its power value
RowColored(row, color) == row.desc = color /\ row.value2.color = color

\* C20 as claimed: after every render each of the seven power-flow rows is in the
\* secondary colour exactly when the magnitude of its flow is below 10 W, and in
\* the value colour otherwise, a magnitude of exactly 10 W included.
C20_RowsDimmedBelowThreshold ==
    RenderedAny =>
        /\ RowColored(ui.generation, FlowColor(data.pvPower))
        /\ RowColored(ui.consumption, FlowColor(data.homePower))
        /\ RowColored(ui.battery_discharge, FlowColor(Max(data.batteryPower, 0)))
        /\ RowColored(ui.battery_charge, FlowColor(Max(-data.batteryPower, 0)))
        /\ RowColored(ui.grid_feed, FlowColor(Max(data.gridPower, 0)))
        /\ RowColored(ui.grid_feedin, FlowColor(Max(-data.gridPower, 0)))
        /\ RowColored(ui.loadpoint,
                      FlowColor(data.lp1.chargePower + data.lp2.chargePower))


\* the row shows "0W" in the secondary colour
RowIdle(row) ==
    /\ RowColored(row, COLOR_TEXT_SECONDARY)
    /\ row.value2.text = FormatPower(0)

\* the row is emphasized and shows a power other than zero
RowActive(row) ==
    /\ RowColored(row, COLOR_TEXT_VALUE)
    /\ row.value2.text # FormatPower(0)

\* of the two rows of a signed flow at most the first is active, the other is idle
PairExclusive(positive, negative, power) ==
    /\ RowIdle(positive) \/ RowIdle(negative)
    /\ RowActive(positive) \/ RowIdle(positive)
    /\ RowActive(negative) \/ RowIdle(negative)
    /\ RowActive(positive) => power > 0
    /\ RowActive(negative) => power < 0

\* C21: after every render, of the battery rows (discharge, charge) and of the grid
\* rows (import, feed-in) at most one is emphasized with a power other than zero,
\* and the other row of the pair shows "0W" dimmed, whatever the sign of the flow.
C21_PairsAreExclusive ==
    RenderedAny =>
        /\ PairExclusive(ui.battery_discharge, ui.battery_charge, data.batteryPower)
        /\ PairExclusive(ui.grid_feed, ui.grid_feedin, data.gridPower)

\* the grid turns from feeding 200 W to importing 1500 W: the feed-in row falls
\* back to "0W" dimmed and the import row is emphasized
C21_Witness ==
    /\ RenderedAny
    /\ pc = "second"
    /\ data.gridPower = 1500
    /\ last.before.ui.grid_feedin.value2.text = "200W"
    /\ RowIdle(ui.grid_feedin)
    /\ RowActive(ui.grid_feed)
    /\ ui.grid_feed.value2.text = "1.5kW"


\* the last render drew the phase bars of a charging loadpoint
RenderedPhases ==
    /\ RenderedAny
    /\ ActiveLoadpoint.charging
    /\ ActiveLoadpoint.maxCurrent > 0

\* round(clamp(current / maxCurrent, 0, 1) * 30), 1 for a current other than zero
\* that comes out as 0
ClaimedPhaseWidth(current, maxCurrent) ==
    LET w == RoundedShare(Min(Max(current, 0), maxCurrent), maxCurrent, PHASE_BAR_WIDTH)
    IN  IF w = 0 /\ current # 0 THEN 1 ELSE w

\* the part of min(current / maxCurrent, 1) * 30 before the point, 1 for a current
\* of 0.1 A or more that comes out below 1
TruncatedPhaseWidth(current, maxCurrent) ==
    LET w == TruncDiv(Min(current, maxCurrent) * PHASE_BAR_WIDTH, maxCurrent)
    IN  IF w < 1 /\ current >= 100 THEN 1 ELSE w

\* the widths of the offered-current bar and of the shown actual-current bar of
\* every active phase are Width(current, maxCurrent)
PhaseWidthsAre(Width(_, _)) ==
    \A i \in 0..2 :
        i < ActiveLoadpoint.phasesActive =>
            /\ ~ui.car.phases[i].offered_hidden
            /\ ui.car.phases[i].offered_width =
                  Width(ActiveLoadpoint.offeredCurrent, ActiveLoadpoint.maxCurrent)
            /\ ~ui.car.phases[i].bar_hidden =>
                  ui.car.phases[i].bar_width =
                      Width(ActiveLoadpoint.chargeCurrents[i], ActiveLoadpoint.maxCurrent)

MaxWrapIterations == 6

\* how long before the wrap the run is picked up, in ms
WrapLead == 12000

\* how long before that the last poll was attempted
SincePoll == {4000, POLL_INTERVAL - 1}

\* the time from one iteration of loop() to the next
WrapDelays == {1, 2000, 5000}

InitWrap ==
    /\ ConstructedData
    /\ ConstructedLog
    /\ ConstructedLoop
    /\ Untouched
    /\ pc = "boot"

\* what an iteration of loop() at `now` did: whether it polled, when a poll was
\* attempted before it and up to it, whether millis() has wrapped, whether this
\* iteration saw now < lastPoll, and whether a poll was attempted since the wrap
Iteration(now, polled, before) ==
    [op        |-> "loop",
     now       |-> now,
     polled    |-> polled,
     previous  |-> before.latest,
     latest    |-> IF polled THEN now ELSE before.latest,
     wrapped   |-> now >= 0,
     reset     |-> before.reset \/ U32Lt(now, lastPoll),
     sinceWrap |-> (now >= 0) /\ (polled \/ before.sinceWrap)]

\* 49 days of uptime, less WrapLead: the firmware is connected and has polled all
\* along, the last time at lastPoll
LongRun ==
    /\ pc = "loop"
    /\ last.op = "none"
    /\ wifiConnected
    /\ millis' = -WrapLead
    /\ \E s \in SincePoll :
          /\ lastPoll' = -WrapLead - s
          /\ last' = [op |-> "loop", now |-> -WrapLead, polled |-> FALSE,
                      previous |-> -WrapLead - s, latest |-> -WrapLead - s,
                      wrapped |-> FALSE, reset |-> FALSE, sinceWrap |-> FALSE]
    /\ lastLVGL' = -WrapLead
    /\ UNCHANGED <<webVars, dataVars, logVars, epochOffset, lastReconnectAttempt,
                   wifiConnected, pc, env, steps, events>>

\* one iteration of loop(); a poll stores at least the entry that announces it, and
\* with WiFi connected nothing else in loop() logs
WrapLoop ==
    /\ pc = "loop"
    /\ last.op = "loop"
    /\ steps < MaxWrapIterations
    /\ \E d \in WrapDelays :
          /\ LoopAt([Memory EXCEPT !.millis = U32Add(@, d), !.ret = FALSE],
                    U32Add(millis, d))
          /\ last' = Iteration(U32Add(millis, d), logTotal' # logTotal, last)
    /\ steps' = steps + 1
    /\ UNCHANGED <<webVars, wifiConnected, env, events>>

NextWrap == RunSetup \/ LongRun \/ WrapLoop

SpecWrap == InitWrap /\ [][NextWrap]_vars

\* C23: across the wrap of the millisecond counter, with WiFi connected, a poll is
\* never attempted less than POLL_INTERVAL after the attempt before it, and the
\* first iteration of loop() that runs POLL_INTERVAL or more after the wrap finds a
\* poll attempted since the wrap or attempts one itself.
C23_PollingAcrossWrap ==
    (last.op = "loop" /\ wifiConnected) =>
        /\ last.polled => U32Ge(U32Sub(last.now, last.previous), POLL_INTERVAL)
        /\ (last.wrapped /\ last.now >= POLL_INTERVAL) => last.sinceWrap

\* the first poll after the wrap, in an iteration later than the one that saw
\* now < lastPoll and set lastPoll to 0; the poll before it was before the wrap
C23_Witness ==
    /\ last.op = "loop"
    /\ last.wrapped
    /\ last.polled
    /\ last.reset
    /\ last.previous < 0
    /\ lastPoll = last.now
    /\ last.now >= POLL_INTERVAL


(***************************************************************************)
(* formatPlanTime (logging.h); a String is the sequence of its characters  *)
(***************************************************************************)
\* the value of a decimal digit, -1 for any other character
DigitValue(c) ==
    IF \E i \in 0..9 : ToString(i) = c THEN CHOOSE i \in 0..9 : ToString(i) = c ELSE -1

\* String::toInt on a string without sign or leading blanks: the digits up to the
\* first character that is none, 0 when there is none
RECURSIVE ToIntFrom(_, _, _)
ToIntFrom(chars, i, acc) ==
    IF i > Len(chars) \/ DigitValue(chars[i]) < 0 THEN acc
    ELSE ToIntFrom(chars, i + 1, 10 * acc + DigitValue(chars[i]))

\* isoTime.substring(from, to).toInt()
SubstringToInt(isoTime, from, to) == ToIntFrom(SubSeq(isoTime, from + 1, to), 1, 0)

\* a plausible slip: February has 28 days in every year
DaysInMonth_NoLeap(year, month) ==
    <<31, 28, 31, 30, 31, 30, 31, 31, 30, 31, 30, 31>>[month]

\* int daysInMonth[] with February set to 29 in a leap year
DaysInMonth(year, month) ==
    IF month = 2 /\ year % 4 = 0 /\ (year % 100 # 0 \/ year % 400 = 0) THEN 29
    ELSE <<31, 28, 31, 30, 31, 30, 31, 31, 30, 31, 30, 31>>[month]

\* localDay++ and the carry into month and year
RolledOver(t) ==
    IF t.day + 1 > DaysInMonth(t.year, t.month)
    THEN IF t.month + 1 > 12
         THEN [t EXCEPT !.hour = @ - 24, !.day = 1, !.month = 1, !.year = @ + 1]
         ELSE [t EXCEPT !.hour = @ - 24, !.day = 1, !.month = @ + 1]
    ELSE [t EXCEPT !.hour = @ - 24, !.day = @ + 1]

\* localHour, localDay, localMonth and localYear: UTC + 1 h, + 2 h under DST
LocalTime(t, isDST) ==
    IF t.hour + (IF isDST THEN 2 ELSE 1) >= 24
    THEN RolledOver([t EXCEPT !.hour = @ + (IF isDST THEN 2 ELSE 1)])
    ELSE [t EXCEPT !.hour = @ + (IF isDST THEN 2 ELSE 1)]

\* int daysDiff
DaysDiff(local, today) ==
    IF local.year = today.year /\ local.month = today.month THEN local.day - today.day
    ELSE IF local.year > today.year
            \/ (local.year = today.year /\ local.month > today.month)
    THEN 7 ELSE -7

germanDays ==
    <<"Sonntag", "Montag", "Dienstag", "Mittwoch", "Donnerstag", "Freitag", "Samstag">>

\* tm_wday as mktime sets it for a date of the Gregorian calendar, 0 for Sunday
WeekDay(year, month, day) ==
    LET y == IF month < 3 THEN year - 1 ELSE year
    IN  (y + (y \div 4) - (y \div 100) + (y \div 400)
         + <<0, 3, 2, 5, 0, 3, 5, 1, 4, 6, 2, 4>>[month] + day) % 7

\* String dayString
DayString(local, daysDiff) ==
    IF daysDiff = 0 THEN "Heute"
    ELSE IF daysDiff = 1 THEN "Morgen"
    ELSE IF daysDiff >= 2 /\ daysDiff < 7
    THEN germanDays[WeekDay(local.year, local.month, local.day) + 1]
    ELSE ToString(local.day) \o "." \o ToString(local.month) \o "."

\* "%02d" for a number from 0 to 99
TwoDigits(n) == IF n < 10 THEN "0" \o ToString(n) ELSE ToString(n)

\* dayString + " " + timeBuf
PlanTimeText(local, today) ==
    DayString(local, DaysDiff(local, today)) \o " "
        \o TwoDigits(local.hour) \o ":" \o TwoDigits(local.minute)

\* formatPlanTime(isoTime) on a host whose local date is today and which is in DST
\* or not; localtime() returns a value on this platform
FormatPlanTime(isoTime, today, isDST) ==
    IF Len(isoTime) < 19 THEN "keiner"
    ELSE PlanTimeText(LocalTime([year   |-> SubstringToInt(isoTime, 0, 4),
                                 month  |-> SubstringToInt(isoTime, 5, 7),
                                 day    |-> SubstringToInt(isoTime, 8, 10),
                                 hour   |-> SubstringToInt(isoTime, 11, 13),
                                 minute |-> SubstringToInt(isoTime, 14, 16)], isDST),
                      today)

(***************************************************************************)
(* The formatters called on their own (SpecFormat)                         *)
(***************************************************************************)
\* how many days after today the plans lie at most
MaxDaysAhead == 8

\* the dates of the years the plans are taken from
CalendarYears == {2024, 2026, 2027}

\* days from 1970-01-01 to a date of the Gregorian calendar
DayNumber(year, month, day) ==
    LET y == IF month <= 2 THEN year - 1 ELSE year
        yoe == y % 400
        doy == ((153 * ((month + 9) % 12) + 2) \div 5) + day - 1
    IN  (y \div 400) * 146097 + yoe * 365 + (yoe \div 4) - (yoe \div 100) + doy - 719468

\* the date that many days from 1970-01-01
DateOfDay(n) ==
    CHOOSE t \in [year : CalendarYears, month : 1..12, day : 1..31] :
        /\ DayNumber(t.year, t.month, t.day) = n
        /\ t.month = 12 \/ n < DayNumber(t.year, t.month + 1, 1)

\* the host's local date and whether it is in DST then (Europe/Berlin)
Todays ==
    {[year |-> 2024, month |-> 2, day |-> 28, isDST |-> FALSE],
     [year |-> 2026, month |-> 2, day |-> 10, isDST |-> FALSE],
     [year |-> 2026, month |-> 6, day |-> 28, isDST |-> TRUE],
     [year |-> 2026, month |-> 12, day |-> 30, isDST |-> FALSE]}

\* the character sequence "YYYY-MM-DDTHH:MM:00Z" of a UTC time
IsoTime(t) ==
    <<ToString(t.year \div 1000), ToString((t.year \div 100) % 10),
      ToString((t.year \div 10) % 10), ToString(t.year % 10), "-",
      ToString(t.month \div 10), ToString(t.month % 10), "-",
      ToString(t.day \div 10), ToString(t.day % 10), "T",
      ToString(t.hour \div 10), ToString(t.hour % 10), ":",
      ToString(t.minute \div 10), ToString(t.minute % 10), ":", "0", "0", "Z">>

\* plans from yesterday to MaxDaysAhead days ahead, early and late in the UTC day
PlanTimes(today) ==
    {DateOfDay(DayNumber(today.year, today.month, today.day) + k)
        @@ [hour |-> h, minute |-> m]
      : k \in -1..MaxDaysAhead, h \in {0, 12, 21, 22, 23}, m \in {5, 30}}

\* the calls of formatPlanTime: whole timestamps, with and without the final "Z",
\* and timestamps cut short
PlanInputs ==
    UNION {{[op |-> "isoTime", utc |-> t, arg |-> SubSeq(IsoTime(t), 1, n),
             today |-> today] : t \in PlanTimes(today), n \in {0, 18, 19, 20}}
           : today \in Todays}

\* how far around each tier boundary the wattages are taken
FormatWindow == 60

\* the wattages formatPower is called with, of both signs
Wattages ==
    {s * (c + d) : s \in {-1, 1}, c \in {0, 500, 1000, 1250, 10000, 12345, 99900},
                   d \in (-FormatWindow)..FormatWindow}

InitFormat ==
    /\ ConstructedData
    /\ ConstructedLog
    /\ ConstructedLoop
    /\ env = Healthy(DocFull)
    /\ steps = 0
    /\ events = 0
    /\ logCall = NoCall
    /\ logsRequest = NoRequest
    /\ pc = "boot"
    /\ last \in {[op |-> "watts", arg |-> w] : w \in Wattages} \cup PlanInputs

\* formatPower(last.arg)
FormatPowerCall ==
    /\ last.op = "watts"
    /\ last' = [op |-> "formatPower", arg |-> last.arg, ret |-> FormatPower(last.arg)]
    /\ UNCHANGED <<webVars, dataVars, logVars, loopVars, wifiConnected, pc, env, steps,
                   events>>

\* formatPlanTime(last.arg) on a host whose local date is last.today
FormatPlanTimeCall ==
    /\ last.op = "isoTime"
    /\ last' = [last EXCEPT !.op = "formatPlanTime"]
                @@ [ret |-> FormatPlanTime(last.arg, last.today, last.today.isDST)]
    /\ UNCHANGED <<webVars, dataVars, logVars, loopVars, wifiConnected, pc, env, steps,
                   events>>

NextFormat == FormatPowerCall \/ FormatPlanTimeCall

SpecFormat == InitFormat /\ [][NextFormat]_vars

\* text is w as the claim words it: the whole number followed by "W" below 1000 W,
\* the nearest tenth of a kW below 10000 W, the nearest whole kW from there on,
\* with the sign of w
IsPowerText(text, w) ==
    IF Abs(w) < 1000 THEN text = ToString(w) \o "W"
    ELSE IF Abs(w) < 10000
    THEN \E tenths \in 10..100 :
            /\ text = Sign(w) \o ToString(tenths \div 10) \o "."
                      \o ToString(tenths % 10) \o "kW"
            /\ Abs(100 * tenths - Abs(w)) <= 50
    ELSE \E kw \in 10..((Abs(w) \div 1000) + 1) :
            /\ text = Sign(w) \o ToString(kw) \o "kW"
            /\ Abs(1000 * kw - Abs(w)) <= 500

\* C24: for an integer wattage w formatPower returns the integer followed by "W"
\* when |w| < 1000, kW with one decimal when 1000 <= |w| < 10000 and kW without
\* decimals when |w| >= 10000, with the sign of w: 999 gives "999W", 1000 gives
\* "1.0kW", -500 gives "-500W" and 12345 gives "12kW".
C24_FormatPowerTiers ==
    last.op = "formatPower" =>
        /\ IsPowerText(last.ret, last.arg)
        /\ last.arg = 999 => last.ret = "999W"
        /\ last.arg = 1000 => last.ret = "1.0kW"
        /\ last.arg = -500 => last.ret = "-500W"
        /\ last.arg = 12345 => last.ret = "12kW"

\* the first wattage of the middle tier, negative
C24_Witness ==
    /\ last.op = "formatPower"
    /\ last.arg = -1000
    /\ last.ret = "-1.0kW"


\* the local date and hour of a UTC time by the calendar: one or two hours later,
\* on the following day when that passes midnight
LocalByCalendar(utc, isDST) ==
    DateOfDay(DayNumber(utc.year, utc.month, utc.day)
              + ((utc.hour + (IF isDST THEN 2 ELSE 1)) \div 24))
        @@ [hour |-> (utc.hour + (IF isDST THEN 2 ELSE 1)) % 24, minute |-> utc.minute]

\* local date minus today, in days
DaysAhead(local, today) ==
    DayNumber(local.year, local.month, local.day)
        - DayNumber(today.year, today.month, today.day)

\* the day part as claimed; 1970-01-01 was a Thursday
ClaimedDayPart(local, today) ==
    IF local.year # today.year \/ local.month # today.month
    THEN ToString(local.day) \o "." \o ToString(local.month) \o "."
    ELSE IF DaysAhead(local, today) = 0 THEN "Heute"
    ELSE IF DaysAhead(local, today) = 1 THEN "Morgen"
    ELSE IF DaysAhead(local, today) \in 2..6
    THEN germanDays[((DayNumber(local.year, local.month, local.day) + 4) % 7) + 1]
    ELSE ToString(local.day) \o "." \o ToString(local.month) \o "."

\* C25: formatPlanTime returns "keiner" for fewer than 19 characters; otherwise it
\* prints the local date and time of the UTC timestamp (UTC+1, UTC+2 when the host
\* is in DST, with the day, month and year carried by the calendar, leap years
\* included, and an hour from 0 to 23): "Heute" for today, "Morgen" for tomorrow,
\* the German weekday for 2 to 6 days ahead and "D.M." otherwise, and "D.M." for
\* every date in another month or year than today.
C25_PlanTime ==
    last.op = "formatPlanTime" =>
        IF Len(last.arg) < 19 THEN last.ret = "keiner"
        ELSE /\ LocalByCalendar(last.utc, last.today.isDST).hour \in 0..23
             /\ last.ret =
                   ClaimedDayPart(LocalByCalendar(last.utc, last.today.isDST), last.today)
                   \o " " \o TwoDigits(LocalByCalendar(last.utc, last.today.isDST).hour)
                   \o ":" \o TwoDigits(last.utc.minute)

\* 23:30 UTC on 28 February of a leap year, asked on that day: half past midnight
\* on the 29th, tomorrow
C25_Witness ==
    /\ last.op = "formatPlanTime"
    /\ last.today = [year |-> 2024, month |-> 2, day |-> 28, isDST |-> FALSE]
    /\ last.arg = IsoTime([year |-> 2024, month |-> 2, day |-> 28, hour |-> 23,
                           minute |-> 30])
    /\ last.ret = "Morgen 00:30"


(***************************************************************************)
(* loop() iteration by iteration while server and radio come and go        *)
(* (SpecRun)                                                               *)
(***************************************************************************)
\* iterations of loop() a run covers
MaxRunIterations == 4

\* how often the server, the heap or the radio changes condition
MaxTurns == 2

\* the time from one iteration of loop() to the next
RunDelays == {LVGL_INTERVAL, POLL_INTERVAL, RECONNECT_INTERVAL}

\* a server that answers, one that answers with a garbled body, and a heap too
\* low for a request
RunModes ==
    { Healthy(DocFull),
      [Healthy(DocFull) EXCEPT !.body = Garbled],
      [Healthy(DocFull) EXCEPT !.free_heap = 15000] }

InitRun ==
    /\ ConstructedData
    /\ ConstructedLog
    /\ ConstructedLoop
    /\ Untouched
    /\ pc = "boot"

\* failed polls in a row up to the state, counted from what pollEVCCData returned
FailedInARow == IF last.op = "loop" THEN last.failed ELSE 0

\* what the iteration of loop() that ran on M at `now` did: whether it polled and
\* what pollEVCCData returned, whether it called WiFi.begin, and what it found
Observed(M, now, polled) ==
    [op          |-> "loop",
     now         |-> now,
     connected   |-> wifiConnected,
     polled      |-> polled,
     ret         |-> polled /\ PollEVCCData(M, env).ret,
     reconnected |-> lastReconnectAttempt' # lastReconnectAttempt,
     failed      |-> IF ~polled THEN FailedInARow
                     ELSE IF PollEVCCData(M, env).ret THEN 0 ELSE FailedInARow + 1,
     before      |-> [lastPoll |-> lastPoll,
                      lastReconnectAttempt |-> lastReconnectAttempt,
                      consecutiveFailures |-> data.consecutiveFailures,
                      lastUpdate |-> data.lastUpdate,
                      env |-> env]]

\* one iteration of loop(); lastPoll changes exactly when the poll branch is taken
RunLoop ==
    /\ pc = "loop"
    /\ steps < MaxRunIterations
    /\ \E d \in RunDelays :
          /\ LoopAt([Memory EXCEPT !.millis = U32Add(@, d), !.ret = FALSE],
                    U32Add(millis, d))
          /\ last' = Observed([Memory EXCEPT !.millis = U32Add(@, d), !.ret = FALSE],
                              U32Add(millis, d), lastPoll' # lastPoll)
    /\ steps' = steps + 1
    /\ UNCHANGED <<webVars, wifiConnected, env, events>>

\* the server or the heap changes condition
EnvTurn ==
    /\ pc = "loop"
    /\ events < MaxTurns
    /\ env' \in RunModes \ {env}
    /\ events' = events + 1
    /\ UNCHANGED <<webVars, dataVars, logVars, loopVars, wifiConnected, pc, steps, last>>

\* the radio loses or regains the access point
WifiTurn ==
    /\ pc = "loop"
    /\ events < MaxTurns
    /\ wifiConnected' = ~wifiConnected
    /\ events' = events + 1
    /\ UNCHANGED <<webVars, dataVars, logVars, loopVars, pc, env, steps, last>>

NextRun == RunSetup \/ RunLoop \/ EnvTurn \/ WifiTurn

SpecRun == InitRun /\ [][NextRun]_vars

\* C26: in the main loop data.consecutiveFailures is the number of polls that
\* returned failure since the last one that returned success, or since boot: a
\* successful poll sets it to 0 and sets lastUpdate, a failed poll adds exactly 1
\* and leaves lastUpdate alone, an iteration without a poll changes neither, and
\* setup, decode included, leaves both at 0.
C26_FailuresCounted ==
    /\ last.op = "none" => data.consecutiveFailures = 0 /\ data.lastUpdate = 0
    /\ last.op = "loop" =>
          /\ data.consecutiveFailures = last.failed
          /\ (last.polled /\ last.ret) =>
                /\ data.consecutiveFailures = 0
                /\ data.lastUpdate = millis
                /\ U32Ge(data.lastUpdate, last.now)
          /\ (last.polled /\ ~last.ret) =>
                /\ data.consecutiveFailures = last.before.consecutiveFailures + 1
                /\ data.lastUpdate = last.before.lastUpdate
          /\ ~last.polled =>
                /\ data.consecutiveFailures = last.before.consecutiveFailures
                /\ data.lastUpdate = last.before.lastUpdate

\* a poll succeeds after two that failed: the counter is back at 0
C26_Witness ==
    /\ last.op = "loop"
    /\ last.polled
    /\ last.ret
    /\ last.before.consecutiveFailures = 2
    /\ data.consecutiveFailures = 0
    /\ data.lastUpdate = millis


\* the step is an iteration of loop() that polled with too little heap for a request
SkippedPoll ==
    /\ pc = "loop"
    /\ lastPoll' # lastPoll
    /\ env.free_heap < MIN_HEAP_FOR_REQUEST

\* C27: a poll skipped for lack of memory counts like a failed poll: it adds one to
\* consecutiveFailures, and the skip that makes it more than 50 in a row restarts
\* the device, so that skips alone lead to the restart.
C27_SkipsAreFailures ==
    [][SkippedPoll =>
          /\ FailedPoll
          /\ pc' = "restart" <=> data'.consecutiveFailures > MAX_CONSECUTIVE_FAILURES]_vars

\* the restart after 51 iterations of loop() that all polled with too little heap:
\* no poll has ever succeeded
C27_Witness ==
    /\ pc = "restart"
    /\ env.free_heap < MIN_HEAP_FOR_REQUEST
    /\ data.lastUpdate = 0
    /\ data.consecutiveFailures = steps
    /\ steps = MAX_CONSECUTIVE_FAILURES + 1


C28_CountersAgree ==
    /\ (logsRequest.pc = "done" /\ "overwrites" \in DOMAIN logsRequest) =>
          logsRequest.total = logsRequest.snapCount + logsRequest.overwrites
    /\ (logsRequest.pc = "status" /\ Len(logsRequest.log) = Len(StatusFields)) =>
          logsRequest.log[1] = logsRequest.log[2] + logsRequest.log[3]


\* C30 as claimed: after every updateUI the loadpoint-title and vehicle-name labels
\* show the title and vehicleTitle of the loadpoint the selector returned in that
\* update.
C30_LabelsShowActiveLoadpoint ==
    RenderedAny =>
        /\ ui.car.title_label = ActiveLoadpoint.title
        /\ ui.car.car_label = ActiveLoadpoint.vehicleTitle

====
